---- MODULE Spec2Model ----
(***************************************************************************)
(* A model of llmcord's message handler (src/llmcord.py, on_message): the  *)
(* node store msg_nodes, the ancestor walk that assembles the conversation *)
(* list, the stream dispatcher, the tool-call loop, the delivery of the    *)
(* response messages and the eviction pass.                                *)
(*                                                                         *)
(* One asyncio event loop runs every handler: a handler runs alone from    *)
(* one await to the next.  `running` is the handler that holds the loop    *)
(* (0: the loop is idle and picks any handler whose await has completed).  *)
(*                                                                         *)
(* Texts are strings.  Optional[str] is a string or None == "<None>";      *)
(* an optional message is a message id or NoMsg == 0.                      *)
(***************************************************************************)
EXTENDS Naturals, Sequences, FiniteSets, TLC

----------------------------------------------------------------------------
(* Sizes.  The numbers of the source are scaled down; every definition of  *)
(* the model reads them through these names only.                          *)

NumTurns == 2            \* handlers (on_message invocations) in one run
MaxTurns == 4            \* handlers in a run of the stale eviction
MAX_MESSAGE_NODES == 3   \* llmcord.py:36 has 2000
max_messages == 3        \* config default 50 (llmcord.py:266)
max_text == 6            \* config default 100000 (llmcord.py:264)
max_images == 1          \* config default 5 (llmcord.py:265), a vision model
CONTENT_LIMIT == 5       \* llmcord.py:416 and 627-628 have 2000
EMBED_LIMIT == 8         \* llmcord.py:416 has 4096
MIN_CACHE_LENGTH == 3    \* cache_min_length, default 1000 (llmcord.py:116)
MAX_BREAKPOINTS == 4     \* llmcord.py:117
MAX_CHUNKS == 3          \* llmcord.py:629
EDIT_DELAY_SECONDS == 1  \* llmcord.py:34
MaxEvents == 4           \* events of one completion stream
MaxRounds == 2           \* follow-up responses that ask for tools again
MaxNow == 2              \* the clock stops here
MaxList == 6             \* entries of a list given to the breakpoint selector
TTL_SECONDS == 2         \* ttl_seconds, default 300 (cache_manager.py:37)
MAX_CACHE_SIZE == 2      \* max_cache_size, default 100 (cache_manager.py:37)
SHOULD_CACHE_MIN == 2    \* cache_manager.py:67 has 100
LARGE_USER == 3          \* cache_manager.py:117 has 500
MaxClock == 4            \* time.time() stops here
MaxCalls == 3            \* calls of prepare_messages_for_caching in one run
MaxFrags == 3            \* tool-call fragments of one completion stream
MaxReplies == 1          \* replies of users to response messages in one run
MaxGraph == 3            \* messages of a malformed reply graph

STREAMING_INDICATOR == "..."

None == "<None>"
NoMsg == 0
BOT == "bot"

Turns == 1 .. MaxTurns

----------------------------------------------------------------------------
(* Helpers on sequences and sets.                                          *)

Min(a, b) == IF a <= b THEN a ELSE b
Max(a, b) == IF a >= b THEN a ELSE b

RECURSIVE Reverse(_)
Reverse(s) == IF s = <<>> THEN <<>> ELSE Append(Reverse(Tail(s)), Head(s))

\* Python's s[:n]
Prefix(s, n) == SubSeq(s, 1, Min(n, Len(s)))

\* Python's "\n".join(parts)
RECURSIVE JoinNL(_)
JoinNL(parts) ==
    IF parts = <<>> THEN ""
    ELSE IF Len(parts) = 1 THEN parts[1]
    ELSE parts[1] \o "\n" \o JoinNL(Tail(parts))

\* Python's "".join(parts)
RECURSIVE Concat(_)
Concat(parts) == IF parts = <<>> THEN "" ELSE Head(parts) \o Concat(Tail(parts))

\* Python's sorted(ids) for a set of integers
RECURSIVE Sorted(_)
Sorted(S) ==
    IF S = {} THEN <<>>
    ELSE LET m == CHOOSE x \in S : \A y \in S : x <= y
         IN  <<m>> \o Sorted(S \ {m})

Range(s) == {s[i] : i \in 1 .. Len(s)}

----------------------------------------------------------------------------
(* The chat platform: the messages of one text channel, by identifier.     *)
(* Identifiers grow with time.  A message has an author, a body (its       *)
(* content without the leading bot mention), embeds (each the joined       *)
(* title/description/footer), attachments (declared content type and       *)
(* body), and an optional reply reference.                                 *)

Att(type, body) == [type |-> type, body |-> body]

PMsg(author, addresses, body, reference, cached, atts) ==
    [author |-> author, addresses_bot |-> addresses, body |-> body,
     embeds |-> <<>>, color |-> "", atts |-> atts, reference |-> reference,
     ref_cached |-> cached]

\* two users answer the bot's reply 2; message 4 has no text, only a pdf
PlatformA ==
    (1 :> PMsg("u1", TRUE, "hi", NoMsg, FALSE, <<Att("text", "t")>>)) @@
    (2 :> PMsg(BOT, FALSE, "yo", 1, FALSE, <<>>)) @@
    (3 :> PMsg("u1", TRUE, "q", 2, FALSE, <<>>)) @@
    (4 :> PMsg("u2", TRUE, "", 2, TRUE, <<Att("other", "x")>>))

\* message 1 replies to a deleted message (9); 2 follows 1 by the same
\* author without addressing the bot; 4 is a conversation of its own
PlatformB ==
    (1 :> PMsg("u1", TRUE, "a", 9, FALSE, <<>>)) @@
    (2 :> PMsg("u1", FALSE, "b", NoMsg, FALSE, <<Att("image", "i"), Att("image", "j")>>)) @@
    (3 :> PMsg("u1", TRUE, "c", 2, TRUE, <<>>)) @@
    (4 :> PMsg("u2", TRUE, "longtext", NoMsg, FALSE, <<>>))

Platforms == {PlatformA, PlatformB}

\* a chain of four messages, 4 -> 3 -> 2 -> 1, each with text
PlatformC ==
    (1 :> PMsg("u1", TRUE, "a", NoMsg, FALSE, <<>>)) @@
    (2 :> PMsg(BOT, FALSE, "b", 1, FALSE, <<>>)) @@
    (3 :> PMsg("u1", TRUE, "c", 2, TRUE, <<>>)) @@
    (4 :> PMsg("u1", TRUE, "d", 3, FALSE, <<>>))

\* the same chain; the leaf, message 4, has no text, only a pdf
PlatformD ==
    (1 :> PMsg("u1", TRUE, "a", NoMsg, FALSE, <<>>)) @@
    (2 :> PMsg(BOT, FALSE, "b", 1, FALSE, <<>>)) @@
    (3 :> PMsg("u1", TRUE, "c", 2, TRUE, <<>>)) @@
    (4 :> PMsg("u1", TRUE, "", 3, FALSE, <<Att("other", "x")>>))

\* two conversations: message 1, with a text attachment, on its own, and
\* the chain 4 -> 3 -> 2
PlatformE ==
    (1 :> PMsg("u1", TRUE, "a", NoMsg, FALSE, <<Att("text", "t")>>)) @@
    (2 :> PMsg("u2", TRUE, "b", NoMsg, FALSE, <<>>)) @@
    (3 :> PMsg(BOT, FALSE, "c", 2, TRUE, <<>>)) @@
    (4 :> PMsg("u2", TRUE, "d", 3, TRUE, <<>>))

\* a channel whose messages reference any message of the channel, themselves
\* and later ones included; the first two have a text or none, the others none
GraphOf(refs, bodies) ==
    [m \in 1 .. MaxGraph |->
        PMsg("u1", TRUE, IF m <= 2 THEN bodies[m] ELSE "", refs[m], FALSE, <<>>)]

ReplyGraphs ==
    {GraphOf(refs, bodies) : refs \in [1 .. MaxGraph -> {NoMsg} \cup (1 .. MaxGraph)],
                             bodies \in [1 .. 2 -> {"", "x"}]}

Leaves(P) == {m \in DOMAIN P : P[m].author # BOT /\ P[m].addresses_bot}

----------------------------------------------------------------------------
VARIABLES
    config,          \* what get_config returns (config.yaml and curr_model)
    env,             \* what the collaborators may do in this run
    platform,        \* the channel's messages, by identifier
    next_id,         \* the identifier the platform gives the next message
    msg_nodes,       \* the node store: message identifier -> node
    heap,            \* the MsgNode objects, by reference (1 .. Len(heap))
    running,         \* the handler that holds the event loop, or 0
    granted,         \* handlers woken by a lock release, in wake-up order
    now,             \* datetime.now().timestamp()
    last_task_time,  \* the global of that name
    pc,              \* where each handler is
    new_msg,         \* the message that triggered the handler
    curr_msg,        \* walk: the message being visited, or NoMsg
    curr_node,       \* walk: the node of curr_msg
    messages,        \* the conversation list, newest first
    user_warnings,   \* the warning set
    predecessors,    \* history: the handlers that had returned when this one began
    response_msgs,   \* the response messages sent so far
    response_contents, \* the segments
    curr_content,    \* the text delta of the last event
    finish_reason,   \* the finish reason, or None
    start_next_msg,  \* the local of that name, kept across the awaits
    sending,         \* the message whose send is awaited
    failed,          \* an exception reached `except Exception` (line 669)
    edit_task,       \* the number of the handler's last edit task, or 0
    edits,           \* the edits in flight
    issued,          \* the number of edits the handler has issued
    applied,         \* history: the edits applied, in order, by handler
    edit_error,      \* the handler's last edit task ended with an exception
    tool_calls,      \* the accumulated tool calls
    tool_results,    \* the results of the round's calls so far
    final_content,   \* the text of the follow-up response
    chunks,          \* the chunks of final_content still to send
    plain_idx,       \* plain delivery: the next segment to send
    provider,        \* what is left of the completion provider's stream
    event_log,       \* history: the events of the stream, as delivered
    request,         \* the message list of the last completion request
    first_request,   \* history: the message list of the streamed request
    evict_ids,       \* eviction pass: the identifiers still to remove
    pass_keys,       \* history: the store's keys when the pass began
    pass_waited,     \* history: the pass waited on a guard
    evict_node,      \* eviction pass: the node whose guard is awaited
    evicted,         \* history: <<handler, identifier>> of every node removed
    populate_log,    \* history: <<handler, message, node>> of every populate
    sent,            \* history: every message sent, in order
    selector,        \* apply_anthropic_cache_control called on its own: its
                     \* argument and, once it has returned, its result
    cache,           \* CacheManager.cache: the entries, in insertion order
    cache_stats,     \* CacheManager.cache_stats
    clock,           \* time.time()
    last_pass,       \* history: the time of the last eviction pass
    recorded,        \* history: every cache write and cache hit, in order
    cache_calls      \* history: the calls of prepare_messages_for_caching

cacheVars == <<cache, cache_stats, clock, last_pass, recorded, cache_calls>>

\* what no handler changes: the configuration, the environment, and what is
\* called outside on_message
envVars   == <<config, env, selector, cacheVars>>
platVars  == <<platform, next_id>>
storeVars == <<msg_nodes, heap>>
schedVars == <<running, granted>>
timeVars  == <<now, last_task_time>>
walkVars  == <<new_msg, curr_msg, curr_node, messages, user_warnings, predecessors>>
respVars  == <<response_msgs, response_contents, curr_content, finish_reason,
               start_next_msg, sending, failed>>
editVars  == <<edit_task, edits, issued, applied, edit_error>>
toolVars  == <<tool_calls, tool_results, final_content, chunks, plain_idx>>
provVars  == <<provider, event_log, request, first_request>>
evictVars == <<evict_ids, pass_keys, pass_waited, evict_node, evicted>>
histVars  == <<populate_log, sent>>

vars == <<envVars, platVars, storeVars, schedVars, timeVars, pc, walkVars,
          respVars, editVars, toolVars, provVars, evictVars, histVars>>

----------------------------------------------------------------------------
(* MsgNode and its guard (asyncio.Lock: first come, first served).         *)

MsgNode(parent) ==
    [text |-> None, images |-> <<>>, role |-> "assistant", user_id |-> None,
     display_name |-> None, has_bad_attachments |-> FALSE,
     fetch_parent_failed |-> FALSE, parent_msg |-> parent,
     lock |-> 0, waiters |-> <<>>]

\* a guard that excludes nobody
LockedNever(node) == FALSE

\* lock.locked()
Locked(node) == node.lock # 0

\* lock.release(): the first waiter, if any, is woken and owns the lock
Release(h, n) ==
    IF h[n].waiters = <<>> THEN [h EXCEPT ![n].lock = 0]
    ELSE [h EXCEPT ![n].lock = Head(h[n].waiters),
                   ![n].waiters = Tail(h[n].waiters)]

\* a release that wakes nobody
WokenNever(h, n, g) == g

Woken(h, n, g) == IF h[n].waiters = <<>> THEN g ELSE Append(g, Head(h[n].waiters))

\* a handler whose await has completed may take the idle loop; the handlers
\* woken by a lock run in the order they were woken
MayResume(t, p) == pc[t] = p /\ running = 0
MayResumeWoken(t, p) == pc[t] = p /\ running = 0 /\ granted # <<>> /\ Head(granted) = t
Runs(t, p) == pc[t] = p /\ running = t

----------------------------------------------------------------------------
(* Populating a node from its message (llmcord.py:317-364).                *)

IsGood(att) == att.type \in {"text", "image"}

RECURSIVE GoodAttachments(_)
GoodAttachments(atts) ==
    IF atts = <<>> THEN <<>>
    ELSE IF IsGood(Head(atts)) THEN <<Head(atts)>> \o GoodAttachments(Tail(atts))
    ELSE GoodAttachments(Tail(atts))

RECURSIVE BodiesOfType(_, _)
BodiesOfType(atts, type) ==
    IF atts = <<>> THEN <<>>
    ELSE IF Head(atts).type = type THEN <<Head(atts).body>> \o BodiesOfType(Tail(atts), type)
    ELSE BodiesOfType(Tail(atts), type)

\* the message before m in the channel: channel.history(before=m, limit=1)
PrevInChannel(P, m) ==
    LET before == {k \in DOMAIN P : k < m}
    IN  IF before = {} THEN NoMsg ELSE CHOOSE k \in before : \A j \in before : j <= k

\* the first branch of the parent resolution: no reference, the bot is not
\* addressed, and the previous message is by the same author
ImplicitParent(P, m) ==
    /\ P[m].reference = NoMsg
    /\ ~P[m].addresses_bot
    /\ PrevInChannel(P, m) # NoMsg
    /\ P[PrevInChannel(P, m)].author = P[m].author

\* the exception of the parent resolution swallowed without a record
ResolveParentUnrecorded(P, m) ==
    IF ImplicitParent(P, m)
    THEN [parent |-> PrevInChannel(P, m), failed |-> FALSE]
    ELSE IF P[m].reference \in DOMAIN P
    THEN [parent |-> P[m].reference, failed |-> FALSE]
    ELSE [parent |-> NoMsg, failed |-> FALSE]

\* [parent, failed]: the parent message and whether resolving it raised
ResolveParent(P, m) ==
    IF ImplicitParent(P, m)
    THEN [parent |-> PrevInChannel(P, m), failed |-> FALSE]
    ELSE IF P[m].reference = NoMsg
    THEN [parent |-> NoMsg, failed |-> FALSE]
    ELSE IF P[m].reference \in DOMAIN P
    THEN [parent |-> P[m].reference, failed |-> FALSE]
    ELSE [parent |-> NoMsg, failed |-> TRUE]

\* populating m awaits the network: an attachment fetch, the channel history
\* or fetch_message of a reference that is not cached
HistoryFetched(P, m) == P[m].reference = NoMsg /\ ~P[m].addresses_bot
NeedsIO(P, m) ==
    \/ GoodAttachments(P[m].atts) # <<>>
    \/ HistoryFetched(P, m)
    \/ (~ImplicitParent(P, m) /\ P[m].reference # NoMsg /\ ~P[m].ref_cached)

Populated(node, P, m) ==
    LET msg == P[m]
        isUser == msg.author # BOT
        res == ResolveParent(P, m)
    IN  [node EXCEPT
            !.text = JoinNL((IF msg.body # "" THEN <<msg.body>> ELSE <<>>)
                            \o msg.embeds
                            \o BodiesOfType(msg.atts, "text")),
            !.images = BodiesOfType(msg.atts, "image"),
            !.role = IF isUser THEN "user" ELSE "assistant",
            !.user_id = IF isUser THEN msg.author ELSE None,
            !.display_name = IF isUser THEN msg.author ELSE None,
            !.has_bad_attachments =
                Len(msg.atts) > Len(GoodAttachments(msg.atts)),
            !.parent_msg = res.parent,
            !.fetch_parent_failed = res.failed]

----------------------------------------------------------------------------
(* The entry and the warnings of one walk step (llmcord.py:366-392).       *)

\* content != "": some text is left after truncation, or an image is kept
HasContent(node) ==
    Prefix(node.images, max_images) # <<>> \/ Prefix(node.text, max_text) # ""

\* the display name goes before the text of a user's message
EntryText(node) ==
    IF node.role = "user" /\ node.display_name # None /\ Prefix(node.text, max_text) # ""
    THEN "[" \o node.display_name \o "]: " \o Prefix(node.text, max_text)
    ELSE Prefix(node.text, max_text)

\* src (the message the entry was made from) is history, not program state
Entry(node, m) ==
    [role |-> node.role, content |-> EntryText(node),
     images |-> Prefix(node.images, max_images), src |-> m,
     cache_control |-> FALSE]

\* lines 371-383 left out: no node gives an entry
EmittedNothing(msgs, node, m) == msgs

Emitted(msgs, node, m) == IF HasContent(node) THEN Append(msgs, Entry(node, m)) ELSE msgs

\* line 391 without the test of the parent: a full list is enough
WarningsWhenFull(node, msgs) ==
    (IF Len(node.text) > max_text THEN {<<"max_text", max_text>>} ELSE {})
    \cup (IF Len(node.images) > max_images THEN {<<"max_images", max_images>>} ELSE {})
    \cup (IF node.has_bad_attachments THEN {<<"bad_attachments", 0>>} ELSE {})
    \cup (IF node.fetch_parent_failed \/ Len(msgs) = max_messages
          THEN {<<"only_last", Len(msgs)>>} ELSE {})

\* lines 385-392: the warnings of one step; the number of the history warning
\* is len(messages) after the step's append
Warnings(node, msgs) ==
    (IF Len(node.text) > max_text THEN {<<"max_text", max_text>>} ELSE {})
    \cup (IF Len(node.images) > max_images THEN {<<"max_images", max_images>>} ELSE {})
    \cup (IF node.has_bad_attachments THEN {<<"bad_attachments", 0>>} ELSE {})
    \cup (IF node.fetch_parent_failed
             \/ (node.parent_msg # NoMsg /\ Len(msgs) = max_messages)
          THEN {<<"only_last", Len(msgs)>>} ELSE {})

----------------------------------------------------------------------------
(* on_message, up to the assembled conversation list (llmcord.py:204-394). *)

Without(f, k) == [x \in DOMAIN f \ {k} |-> f[x]]

\* the handler has returned, or an exception has left it: on_message is over
\* ("crashed": KeyError at line 673; "fetch_raised": line 321 raised)
Propagated == {"crashed", "fetch_raised"}
Returned == {"done"} \cup Propagated

\* a message that addresses the bot arrives; the handler runs up to
\* `await asyncio.to_thread(get_config)`.  Handlers are numbered in the
\* order of arrival.
Start(t) ==
    /\ pc[t] = "idle" /\ running = 0
    /\ t <= env.turns
    /\ \A u \in Turns : u < t => pc[u] # "idle"
    /\ \E m \in Leaves(platform) \cap env.leaves :
          /\ new_msg' = [new_msg EXCEPT ![t] = m]
          /\ curr_msg' = [curr_msg EXCEPT ![t] = m]
    /\ predecessors' = [predecessors EXCEPT ![t] = {u \in Turns : pc[u] \in Returned}]
    /\ pc' = [pc EXCEPT ![t] = "get_config"]
    /\ UNCHANGED <<envVars, platVars, storeVars, schedVars, timeVars, curr_node,
                   messages, user_warnings, respVars, editVars, toolVars,
                   provVars, evictVars, histVars>>

\* the walk goes on to the root of the chain, whatever the list holds
WalkEndsAtRoot(m, msgs) == m = NoMsg

\* line 312: the loop test of the walk fails
WalkEnds(m, msgs) == m = NoMsg \/ Len(msgs) >= max_messages

\* the loop test of the walk, msg_nodes.setdefault and the guard's acquire
WalkNext(t) ==
    /\ MayResume(t, "get_config") \/ Runs(t, "walk")
    /\ IF WalkEnds(curr_msg[t], messages[t])
       THEN /\ pc' = [pc EXCEPT ![t] = "assembled"]
            /\ running' = t
            /\ UNCHANGED <<storeVars, curr_node>>
       ELSE LET m == curr_msg[t]
                isNew == m \notin DOMAIN msg_nodes
                n == IF isNew THEN Len(heap) + 1 ELSE msg_nodes[m]
                h == IF isNew THEN Append(heap, MsgNode(NoMsg)) ELSE heap
            IN  /\ msg_nodes' = IF isNew THEN (m :> n) @@ msg_nodes ELSE msg_nodes
                /\ curr_node' = [curr_node EXCEPT ![t] = n]
                /\ IF ~Locked(h[n])
                   THEN /\ heap' = [h EXCEPT ![n].lock = t]
                        /\ pc' = [pc EXCEPT ![t] = "locked"]
                        /\ running' = t
                   ELSE /\ heap' = [h EXCEPT ![n].waiters = Append(@, t)]
                        /\ pc' = [pc EXCEPT ![t] = "wait_lock"]
                        /\ running' = 0
    /\ UNCHANGED <<envVars, platVars, granted, timeVars, new_msg, curr_msg,
                   messages, user_warnings, predecessors, respVars, editVars,
                   toolVars, provVars, evictVars, histVars>>

\* the guard is handed over by the handler that released it
WalkWoken(t) ==
    /\ MayResumeWoken(t, "wait_lock")
    /\ granted' = Tail(granted)
    /\ running' = t
    /\ pc' = [pc EXCEPT ![t] = "locked"]
    /\ UNCHANGED <<envVars, platVars, storeVars, timeVars, walkVars, respVars,
                   editVars, toolVars, provVars, evictVars, histVars>>

\* the rest of the step under the guard: the node (populated if it was not)
\* gives its entry and its warnings, and the walk moves to the parent
FinishStep(t, populate) ==
    LET n == curr_node[t]
        m == curr_msg[t]
        node == IF populate THEN Populated(heap[n], platform, m) ELSE heap[n]
        msgs == Emitted(messages[t], node, m)
    IN  /\ heap' = Release([heap EXCEPT ![n] = node], n)
        /\ granted' = Woken(heap, n, granted)
        /\ messages' = [messages EXCEPT ![t] = msgs]
        /\ user_warnings' = [user_warnings EXCEPT ![t] = @ \cup Warnings(node, msgs)]
        /\ curr_msg' = [curr_msg EXCEPT ![t] = node.parent_msg]
        /\ populate_log' = IF populate THEN populate_log \cup {<<t, m, n>>}
                           ELSE populate_log
        /\ pc' = [pc EXCEPT ![t] = "walk"]
        /\ running' = t
        /\ UNCHANGED <<envVars, platVars, msg_nodes, timeVars, new_msg, curr_node,
                       predecessors, respVars, editVars, toolVars, provVars,
                       evictVars, sent>>

\* the test of line 316 left out
NeedsPopulateAlways(node) == TRUE

\* line 316
NeedsPopulate(node) == node.text = None

\* under the guard: a populated node is reused; an unpopulated one is
\* populated, which awaits the network when the message needs it
WalkLocked(t) ==
    /\ Runs(t, "locked")
    /\ IF NeedsPopulate(heap[curr_node[t]]) /\ NeedsIO(platform, curr_msg[t])
       THEN /\ pc' = [pc EXCEPT ![t] = "fetch"]
            /\ running' = 0
            /\ UNCHANGED <<envVars, platVars, storeVars, granted, timeVars,
                           walkVars, respVars, editVars, toolVars, provVars,
                           evictVars, histVars>>
       ELSE FinishStep(t, NeedsPopulate(heap[curr_node[t]]))

\* `await asyncio.gather(...)` of line 321 raises what a fetch raised: the
\* `async with` releases the guard of the node, which stays unpopulated, and
\* the exception leaves on_message
FetchRaises(t) ==
    LET n == curr_node[t]
    IN  /\ heap' = Release(heap, n)
        /\ granted' = Woken(heap, n, granted)
        /\ pc' = [pc EXCEPT ![t] = "fetch_raised"]
        /\ running' = 0
        /\ UNCHANGED <<envVars, platVars, msg_nodes, timeVars, walkVars, respVars,
                       editVars, toolVars, provVars, evictVars, histVars>>

\* the attachments and the parent have arrived
WalkFetched(t) ==
    /\ MayResume(t, "fetch")
    /\ \/ FinishStep(t, TRUE)
       \/ /\ env.fetch_fails
          /\ GoodAttachments(platform[curr_msg[t]].atts) # <<>>
          /\ FetchRaises(t)


----------------------------------------------------------------------------
(* The cache breakpoints (llmcord.py:106-162, apply_anthropic_cache_control).*)
(* An entry has one text part at most: its content, when it is not empty.  *)

IsCandidate(msgs, i) ==
    msgs[i].content # "" /\ Len(msgs[i].content) >= MIN_CACHE_LENGTH

\* the priority of line 135 without the system rule
PriorityByIndex(msgs, i) == i

\* msg_idx counts from 0, the model's sequences from 1
Priority(msgs, i) == IF msgs[i].role = "system" THEN 0 ELSE i

\* candidate j comes before candidate i in sorted(key = (priority, -length));
\* the sort is stable
SortsBefore(msgs, j, i) ==
    \/ Priority(msgs, j) < Priority(msgs, i)
    \/ /\ Priority(msgs, j) = Priority(msgs, i)
       /\ \/ Len(msgs[j].content) > Len(msgs[i].content)
          \/ (Len(msgs[j].content) = Len(msgs[i].content) /\ j < i)

\* the slice of line 149 left out: every candidate is marked
MarkedAll(msgs) == {i \in 1 .. Len(msgs) : IsCandidate(msgs, i)}

Marked(msgs) ==
    {i \in 1 .. Len(msgs) :
        /\ IsCandidate(msgs, i)
        /\ Cardinality({j \in 1 .. Len(msgs) :
                           IsCandidate(msgs, j) /\ SortsBefore(msgs, j, i)})
             < MAX_BREAKPOINTS}

apply_anthropic_cache_control(msgs) ==
    [i \in 1 .. Len(msgs) |->
        [msgs[i] EXCEPT !.cache_control = (i \in Marked(msgs))]]

----------------------------------------------------------------------------
(* The completion request (llmcord.py:396-470).                            *)

SystemEntry(prompt) ==
    [role |-> "system", content |-> prompt, images |-> <<>>, src |-> NoMsg,
     cache_control |-> FALSE]

WithSystemPrompt(msgs) ==
    IF config.system_prompt # "" THEN Append(msgs, SystemEntry(config.system_prompt))
    ELSE msgs

RequestMessages(msgs) ==
    IF config.is_anthropic THEN apply_anthropic_cache_control(WithSystemPrompt(msgs))
    ELSE WithSystemPrompt(msgs)

max_message_length ==
    IF config.use_plain_responses THEN CONTENT_LIMIT
    ELSE EMBED_LIMIT - Len(STREAMING_INDICATOR)

\* the stream the provider will deliver to a handler: the text it has yet to
\* send, the tool-call fragments it has yet to send, the events it may still
\* deliver, whether it has sent its terminal event, the follow-up responses
\* with tool calls it may still give, and (history) the follow-up responses
\* it has given
Streams ==
    [text : env.texts, frags : env.frags, events : {env.max_events},
     finished : {FALSE}, rounds : {env.rounds}, given : {<<>>}]

NoStream ==
    [text |-> "", frags |-> <<>>, events |-> 0, finished |-> FALSE, rounds |-> 0,
     given |-> <<>>]

\* the list sent as assembled, newest first
WireUnreversed(msgs) == msgs

\* line 439: messages[::-1] goes to the provider
Wire(msgs) == Reverse(msgs)

\* `await create(**create_params)`
OpenStream(t, msgs) ==
    /\ messages' = [messages EXCEPT ![t] = msgs]
    /\ request' = [request EXCEPT ![t] = Wire(msgs)]
    /\ first_request' = [first_request EXCEPT ![t] = Wire(msgs)]
    /\ \E st \in Streams : provider' = [provider EXCEPT ![t] = st]
    /\ pc' = [pc EXCEPT ![t] = "stream"]
    /\ running' = 0

\* the list is assembled: the system prompt, the locals of the response, the
\* warnings (plain delivery sends them as a reply of their own, and awaits it)
Assembled(t) ==
    /\ Runs(t, "assembled")
    /\ IF user_warnings[t] # {} /\ config.use_plain_responses
       THEN /\ pc' = [pc EXCEPT ![t] = "warn_send"]
            /\ running' = 0
            /\ UNCHANGED <<messages, provider, request, first_request>>
       ELSE OpenStream(t, RequestMessages(messages[t]))
    /\ UNCHANGED <<envVars, platVars, storeVars, granted, timeVars, new_msg, curr_msg,
                   curr_node, user_warnings, predecessors, respVars, editVars, toolVars,
                   event_log, evictVars, histVars>>

BotMsg(body, embeds, color, reference) ==
    [author |-> BOT, addresses_bot |-> FALSE, body |-> body, embeds |-> embeds,
     color |-> color, atts |-> <<>>, reference |-> reference, ref_cached |-> TRUE]

SentRecord(t, id, kind, seg, text) ==
    [turn |-> t, id |-> id, kind |-> kind, seg |-> seg, text |-> text]

\* the warning reply is on the platform (it deletes itself later)
WarnSent(t) ==
    /\ MayResume(t, "warn_send")
    /\ platform' = (next_id :> BotMsg("warnings", <<>>, "", new_msg[t])) @@ platform
    /\ next_id' = next_id + 1
    /\ sent' = Append(sent, SentRecord(t, next_id, "warning", 0, "warnings"))
    /\ OpenStream(t, RequestMessages(messages[t]))
    /\ UNCHANGED <<envVars, storeVars, granted, timeVars, new_msg, curr_msg, curr_node,
                   user_warnings, predecessors, respVars, editVars, toolVars, event_log,
                   evictVars, populate_log>>

----------------------------------------------------------------------------
(* The stream dispatcher (llmcord.py:467-539).                             *)

Last(s) == s[Len(s)]

\* an event of the stream: a chunk with one choice (a text delta, tool-call
\* fragments, a finish reason or None), or a chunk without choices
Event(content, frags, fr) ==
    [choices |-> TRUE, content |-> content, tool_calls |-> frags, finish_reason |-> fr]
NoChoice ==
    [choices |-> FALSE, content |-> "", tool_calls |-> <<>>, finish_reason |-> None]

Fragment(index, id, name, arguments) ==
    [index |-> index, id |-> id, name |-> name, arguments |-> arguments]

\* what the provider may deliver next, with what is then left of its stream
Deliveries(st) ==
    IF st.events = 0 THEN {}
    ELSE {[event |-> NoChoice, left |-> [st EXCEPT !.events = @ - 1]] :
             x \in {y \in {TRUE} : env.no_choice}}
         \cup
         {[event |-> Event(SubSeq(st.text, 1, k), SubSeq(st.frags, 1, f), fr),
           left |-> [st EXCEPT !.text = SubSeq(@, k + 1, Len(@)),
                               !.frags = SubSeq(@, f + 1, Len(@)),
                               !.events = @ - 1,
                               !.finished = @ \/ fr # None]] :
            k \in {d \in env.deltas : d <= Len(st.text)},
            f \in 0 .. Min(1, Len(st.frags)),
            fr \in {None} \cup env.finishes}

\* the stream ends with an exception instead of an event
StreamError ==
    [choices |-> FALSE, content |-> "", tool_calls |-> <<>>, finish_reason |-> "error"]

\* a call accumulated from the stream is a dict (dict: TRUE); a call of a
\* follow-up response is an object of the client library
NoCall == [id |-> "", name |-> "", arguments |-> "", dict |-> TRUE]

\* lines 486-499 for one fragment; ok is FALSE when tool_calls[index] raises
\* IndexError
AccumulateOne(acc, f) ==
    LET tc == IF Len(acc.calls) <= f.index THEN Append(acc.calls, NoCall) ELSE acc.calls
    IN  IF ~acc.ok THEN acc
        ELSE IF f.index + 1 > Len(tc) THEN [ok |-> FALSE, calls |-> tc]
        ELSE [ok |-> TRUE,
              calls |-> [tc EXCEPT ![f.index + 1] =
                            [id |-> IF f.id # "" THEN f.id ELSE @.id,
                             name |-> IF f.name # "" THEN f.name ELSE @.name,
                             arguments |-> @.arguments \o f.arguments,
                             dict |-> TRUE]]]

RECURSIVE Accumulate(_, _)
Accumulate(acc, frags) ==
    IF frags = <<>> THEN acc
    ELSE Accumulate(AccumulateOne(acc, Head(frags)), Tail(frags))

\* the test of line 471 left out
StreamBrokenNever(fr) == FALSE

\* line 471: the loop leaves at the first event after a finish reason
StreamBroken(fr) == fr # None

\* the delta appended without the lag of one event
NewContentNoLag(prev, delta, fr) == delta

\* the terminal event's own text left out
NewContentDropsLast(prev, delta, fr) == prev

\* lines 501-504
NewContent(prev, delta, fr) == IF fr = None THEN prev ELSE prev \o delta

\* line 509 with >= for >
StartsNextMsgAtLimit(rc, new_content, limit) ==
    rc = <<>> \/ Len(Last(rc) \o new_content) >= limit

\* line 509
StartsNextMsg(rc, new_content, limit) ==
    rc = <<>> \/ Len(Last(rc) \o new_content) > limit

\* lines 510-512
Appended(rc, new_content, limit) ==
    IF StartsNextMsg(rc, new_content, limit) THEN Append(rc, new_content)
    ELSE [rc EXCEPT ![Len(rc)] = @ \o new_content]

EditPending(t) == \E e \in edits : e.turn = t /\ e.no = edit_task[t]

\* line 517 without the test of the time
ReadyToEditAnyTime(t) == edit_task[t] = 0 \/ ~EditPending(t)

\* line 517
ReadyToEdit(t) ==
    /\ edit_task[t] = 0 \/ ~EditPending(t)
    /\ now >= last_task_time + EDIT_DELAY_SECONDS

\* lines 518-520, on the locals after the event
MsgSplitIncoming(rc, delta, fr, limit) == fr = None /\ Len(Last(rc) \o delta) > limit
IsFinalEdit(rc, delta, fr, limit) == fr # None \/ MsgSplitIncoming(rc, delta, fr, limit)
Lower(fr) == IF fr = "STOP" THEN "stop" ELSE fr
IsGoodFinish(fr) == fr # None /\ Lower(fr) \in {"stop", "end_turn"}

\* lines 523-524 left out
AwaitsEditNever(t) == FALSE

\* line 523: a pending edit is awaited before the next render
AwaitsEdit(t) == edit_task[t] # 0 /\ EditPending(t)

\* the next chunk of the stream arrives, or the stream ends: the body of the
\* loop up to its first await
StreamChunk(t) ==
    /\ MayResume(t, "stream")
    /\ \/ \* the stream is exhausted
          /\ provider[t].finished \/ provider[t].events = 0
          /\ pc' = [pc EXCEPT ![t] = "after_stream"]
          /\ running' = t
          /\ UNCHANGED <<respVars, tool_calls, provider, event_log>>
       \/ \* the stream raises (caught at line 669)
          /\ env.stream_fails
          /\ event_log' = [event_log EXCEPT ![t] = Append(@, StreamError)]
          /\ failed' = [failed EXCEPT ![t] = TRUE]
          /\ pc' = [pc EXCEPT ![t] = "finalize"]
          /\ running' = t
          /\ UNCHANGED <<response_msgs, response_contents, curr_content,
                         finish_reason, start_next_msg, sending, tool_calls, provider>>
       \/ \E d \in Deliveries(provider[t]) :
            LET e == d.event
                acc == Accumulate([ok |-> TRUE, calls |-> tool_calls[t]], e.tool_calls)
                prev == IF curr_content[t] = None THEN "" ELSE curr_content[t]
                new_content == NewContent(prev, e.content, e.finish_reason)
                rc == response_contents[t]
                rc2 == Appended(rc, new_content, max_message_length)
            IN  /\ provider' = [provider EXCEPT ![t] = d.left]
                /\ event_log' = [event_log EXCEPT ![t] = Append(@, e)]
                /\ IF StreamBroken(finish_reason[t])
                   THEN \* line 472: break
                        /\ pc' = [pc EXCEPT ![t] = "after_stream"]
                        /\ running' = t
                        /\ UNCHANGED <<respVars, tool_calls>>
                   ELSE IF ~e.choices
                   THEN \* line 475: continue
                        /\ UNCHANGED <<respVars, tool_calls, pc, running>>
                   ELSE IF ~acc.ok
                   THEN \* IndexError, caught at line 669
                        /\ finish_reason' = [finish_reason EXCEPT ![t] = e.finish_reason]
                        /\ tool_calls' = [tool_calls EXCEPT ![t] = acc.calls]
                        /\ failed' = [failed EXCEPT ![t] = TRUE]
                        /\ pc' = [pc EXCEPT ![t] = "finalize"]
                        /\ running' = t
                        /\ UNCHANGED <<response_msgs, response_contents, curr_content,
                                       start_next_msg, sending>>
                   ELSE /\ finish_reason' = [finish_reason EXCEPT ![t] = e.finish_reason]
                        /\ tool_calls' = [tool_calls EXCEPT ![t] = acc.calls]
                        /\ curr_content' = [curr_content EXCEPT ![t] = e.content]
                        /\ UNCHANGED <<response_msgs, sending, failed>>
                        /\ IF rc = <<>> /\ new_content = ""
                           THEN \* line 507: continue
                                UNCHANGED <<response_contents, start_next_msg, pc, running>>
                           ELSE /\ response_contents' = [response_contents EXCEPT ![t] = rc2]
                                /\ start_next_msg' = [start_next_msg EXCEPT ![t] =
                                       StartsNextMsg(rc, new_content, max_message_length)]
                                /\ IF config.use_plain_responses
                                      \/ ~(\/ StartsNextMsg(rc, new_content, max_message_length)
                                           \/ ReadyToEdit(t)
                                           \/ IsFinalEdit(rc2, e.content, e.finish_reason,
                                                          max_message_length))
                                   THEN UNCHANGED <<pc, running>>
                                   ELSE IF AwaitsEdit(t)
                                   THEN /\ pc' = [pc EXCEPT ![t] = "await_edit"]
                                        /\ UNCHANGED running
                                   ELSE /\ pc' = [pc EXCEPT ![t] = "render"]
                                        /\ running' = t
    /\ UNCHANGED <<envVars, platVars, storeVars, granted, timeVars, walkVars, editVars,
                   tool_results, final_content, chunks, plain_idx, request,
                   first_request, evictVars, histVars>>

\* `await edit_task` returns
EditAwaited(t) ==
    /\ MayResume(t, "await_edit")
    /\ ~EditPending(t)
    /\ pc' = [pc EXCEPT ![t] = "render"]
    /\ running' = t
    /\ UNCHANGED <<envVars, platVars, storeVars, granted, timeVars, walkVars, respVars,
                   editVars, toolVars, provVars, evictVars, histVars>>

\* lines 526-539: the embed is set, then either the next message is sent
\* (awaited) or an edit task is created
Render(t) ==
    LET rc == response_contents[t]
        final == IsFinalEdit(rc, curr_content[t], finish_reason[t], max_message_length)
        desc == IF final THEN Last(rc) ELSE Last(rc) \o STREAMING_INDICATOR
        color == IF MsgSplitIncoming(rc, curr_content[t], finish_reason[t], max_message_length)
                    \/ IsGoodFinish(finish_reason[t])
                 THEN "complete" ELSE "incomplete"
    IN  /\ Runs(t, "render")
        /\ IF edit_task[t] # 0 /\ edit_error[t]
           THEN \* `await edit_task` raises what the edit raised
                /\ failed' = [failed EXCEPT ![t] = TRUE]
                /\ pc' = [pc EXCEPT ![t] = "finalize"]
                /\ UNCHANGED <<sending, editVars, last_task_time, running>>
           ELSE IF start_next_msg[t]
           THEN /\ sending' = [sending EXCEPT ![t] =
                       [description |-> desc, color |-> color, seg |-> Len(rc)]]
                /\ pc' = [pc EXCEPT ![t] = "reply"]
                /\ running' = 0
                /\ UNCHANGED <<editVars, last_task_time, failed>>
           ELSE /\ edits' = edits \cup
                       {[turn |-> t, no |-> issued[t] + 1, target |-> Last(response_msgs[t]),
                         description |-> desc, color |-> color]}
                /\ issued' = [issued EXCEPT ![t] = @ + 1]
                /\ edit_task' = [edit_task EXCEPT ![t] = issued[t] + 1]
                /\ edit_error' = [edit_error EXCEPT ![t] = FALSE]
                /\ last_task_time' = now
                /\ pc' = [pc EXCEPT ![t] = "stream"]
                /\ running' = 0
                /\ UNCHANGED <<sending, applied, failed>>
        /\ UNCHANGED <<envVars, platVars, storeVars, granted, now, walkVars,
                       response_msgs, response_contents, curr_content, finish_reason,
                       start_next_msg, toolVars, provVars, evictVars, histVars>>

\* line 535 left out: the node is registered with its guard free
DeliverUnguarded(t, msg, kind, seg, text) ==
    /\ platform' = (next_id :> msg) @@ platform
    /\ next_id' = next_id + 1
    /\ response_msgs' = [response_msgs EXCEPT ![t] = Append(@, next_id)]
    /\ heap' = Append(heap, MsgNode(new_msg[t]))
    /\ msg_nodes' = (next_id :> Len(heap) + 1) @@ msg_nodes
    /\ sent' = Append(sent, SentRecord(t, next_id, kind, seg, text))

\* a message of the handler is on the platform: it joins response_msgs and
\* its node is registered with the guard taken (lines 531-535, 631-644, 663-667)
Deliver(t, msg, kind, seg, text) ==
    /\ platform' = (next_id :> msg) @@ platform
    /\ next_id' = next_id + 1
    /\ response_msgs' = [response_msgs EXCEPT ![t] = Append(@, next_id)]
    /\ heap' = Append(heap, [MsgNode(new_msg[t]) EXCEPT !.lock = t])
    /\ msg_nodes' = (next_id :> Len(heap) + 1) @@ msg_nodes
    /\ sent' = Append(sent, SentRecord(t, next_id, kind, seg, text))

ReplyTo(t) == IF response_msgs[t] = <<>> THEN new_msg[t] ELSE Last(response_msgs[t])

\* the platform refuses a message whose content or embed description is
\* longer than its limit: the send raises (caught at line 669)
Refused(body, description) ==
    Len(body) > CONTENT_LIMIT \/ Len(description) > EMBED_LIMIT

SendRaises(t) ==
    /\ failed' = [failed EXCEPT ![t] = TRUE]
    /\ pc' = [pc EXCEPT ![t] = "finalize"]
    /\ running' = t
    /\ UNCHANGED <<platVars, storeVars, response_msgs, sent>>

\* `await reply_to_msg.reply(embed=embed)` returns
Replied(t) ==
    /\ MayResume(t, "reply")
    /\ IF Refused("", sending[t].description)
       THEN SendRaises(t) /\ UNCHANGED last_task_time
       ELSE /\ Deliver(t, BotMsg("", <<sending[t].description>>, sending[t].color,
                                 ReplyTo(t)),
                       "embed", sending[t].seg, sending[t].description)
            /\ last_task_time' = now
            /\ pc' = [pc EXCEPT ![t] = "stream"]
            /\ UNCHANGED <<running, failed>>
    /\ UNCHANGED <<envVars, granted, now, walkVars, response_contents, curr_content,
                   finish_reason, start_next_msg, sending, editVars,
                   toolVars, provVars, evictVars, populate_log>>

\* an edit in flight reaches the platform
EditDone ==
    /\ running = 0
    /\ \E e \in edits :
          /\ edits' = edits \ {e}
          /\ IF Refused("", e.description)
             THEN /\ edit_error' = [edit_error EXCEPT ![e.turn] = TRUE]
                  /\ UNCHANGED <<platform, applied>>
             ELSE /\ platform' = [platform EXCEPT
                                     ![e.target].embeds = <<e.description>>,
                                     ![e.target].color = e.color]
                  /\ applied' = [applied EXCEPT ![e.turn] = Append(@, e.no)]
                  /\ UNCHANGED edit_error
    /\ UNCHANGED <<envVars, next_id, storeVars, schedVars, timeVars, pc, walkVars,
                   respVars, edit_task, issued, toolVars, provVars, evictVars,
                   histVars>>

\* a second passes
Tick ==
    /\ running = 0
    /\ now < env.max_now
    /\ now' = now + 1
    /\ UNCHANGED <<envVars, platVars, storeVars, schedVars, last_task_time, pc,
                   walkVars, respVars, editVars, toolVars, provVars, evictVars,
                   histVars>>

\* the response messages of the handlers that are on the platform
ResponseMsgs == UNION {{response_msgs[t][i] : i \in 1 .. Len(response_msgs[t])} : t \in Turns}

\* the replies of users to response messages, so far
UserReplies == {m \in DOMAIN platform : m >= 5 /\ platform[m].author # BOT}

\* a user replies to a response message of the bot; a reply mentions the
\* author of the message it replies to, so it addresses the bot (line 210)
UserReply ==
    /\ running = 0
    /\ Cardinality(UserReplies) < MaxReplies
    /\ \E m \in ResponseMsgs :
          platform' = (next_id :> PMsg("u2", TRUE, "r", m, TRUE, <<>>)) @@ platform
    /\ next_id' = next_id + 1
    /\ UNCHANGED <<envVars, storeVars, schedVars, timeVars, pc, walkVars, respVars,
                   editVars, toolVars, provVars, evictVars, histVars>>

----------------------------------------------------------------------------
(* The tool-call loop (llmcord.py:541-654).                                *)

\* json.loads accepts the arguments
ValidJSON(arguments) == arguments \in {"{}", "{\"q\":1}"}

AssistantEntry(content, calls) ==
    [role |-> "assistant", content |-> content, tool_calls |-> calls]

ToolEntry(call, result) ==
    [role |-> "tool", tool_call_id |-> call.id, name |-> call.name, content |-> result]

\* a call that failed gets no tool entry
RECURSIVE WithToolEntriesNoErrors(_, _, _)
WithToolEntriesNoErrors(msgs, calls, results) ==
    IF calls = <<>> THEN msgs
    ELSE IF Head(results) = "{error}"
    THEN WithToolEntriesNoErrors(msgs, Tail(calls), Tail(results))
    ELSE WithToolEntriesNoErrors(<<ToolEntry(Head(calls), Head(results))>> \o msgs,
                                 Tail(calls), Tail(results))

\* the tool entries put before the list in one piece, in call order
WithToolEntriesTogether(msgs, calls, results) ==
    [i \in 1 .. Len(calls) |-> ToolEntry(calls[i], results[i])] \o msgs

\* lines 583-597: one tool entry per call goes to the front, in call order
RECURSIVE WithToolEntries(_, _, _)
WithToolEntries(msgs, calls, results) ==
    IF calls = <<>> THEN msgs
    ELSE WithToolEntries(<<ToolEntry(Head(calls), Head(results))>> \o msgs,
                         Tail(calls), Tail(results))

\* lines 576-597
WithToolRound(msgs, calls, results) ==
    WithToolEntries(<<AssistantEntry(None, calls)>> \o msgs, calls, results)

\* lines 627-629: the answer, or its first chunks
ChunksOf(content) ==
    IF Len(content) > CONTENT_LIMIT
    THEN LET n == (Len(content) + CONTENT_LIMIT - 1) \div CONTENT_LIMIT
         IN  [i \in 1 .. Min(n, MAX_CHUNKS) |->
                 SubSeq(content, (i - 1) * CONTENT_LIMIT + 1,
                        Min(i * CONTENT_LIMIT, Len(content)))]
    ELSE <<content>>

\* line 618: final_msg.model_dump() turns the call objects into dicts
ModelDump(calls) == [i \in 1 .. Len(calls) |-> [calls[i] EXCEPT !.dict = TRUE]]

\* json.dumps accepts the entry: it holds no object of the client library
Serializable(e) ==
    "tool_calls" \in DOMAIN e => \A i \in 1 .. Len(e.tool_calls) : e.tool_calls[i].dict

\* line 602: json.dumps(messages[:3]) raises TypeError
LogRaises(msgs) == \E i \in 1 .. Min(3, Len(msgs)) : ~Serializable(msgs[i])

\* line 616 without the test of the finish reason
MoreToolsAnyReason(r) == r.tool_calls # <<>>

\* line 616
MoreTools(r) == r.finish_reason = "tool_calls" /\ r.tool_calls # <<>>

\* line 542: the loop test
ToolLoopRuns(calls, fr) == calls # <<>> /\ fr = "tool_calls"

AfterStream(t) ==
    /\ Runs(t, "after_stream")
    /\ IF ToolLoopRuns(tool_calls[t], finish_reason[t])
       THEN /\ tool_results' = [tool_results EXCEPT ![t] = <<>>]
            /\ pc' = [pc EXCEPT ![t] = "tool_call"]
       ELSE /\ pc' = [pc EXCEPT ![t] = "plain_out"]
            /\ UNCHANGED tool_results
    /\ UNCHANGED <<envVars, platVars, storeVars, schedVars, timeVars, walkVars,
                   respVars, editVars, tool_calls, final_content, chunks, plain_idx,
                   provVars, evictVars, histVars>>

\* the next call of the round: json.loads, then `await handle_tool_call`;
\* after the last call the round's entries are inserted and the follow-up
\* request is made
ToolCall(t) ==
    /\ Runs(t, "tool_call")
    /\ IF Len(tool_results[t]) = Len(tool_calls[t])
       THEN /\ messages' = [messages EXCEPT ![t] =
                              WithToolRound(@, tool_calls[t], tool_results[t])]
            /\ IF LogRaises(WithToolRound(messages[t], tool_calls[t], tool_results[t]))
               THEN \* caught at line 652: no request is made, the loop is left
                    /\ tool_calls' = [tool_calls EXCEPT ![t] = <<>>]
                    /\ pc' = [pc EXCEPT ![t] = "after_stream"]
                    /\ UNCHANGED <<request, running>>
               ELSE /\ request' = [request EXCEPT ![t] =
                                      Wire(WithToolRound(messages[t], tool_calls[t],
                                                         tool_results[t]))]
                    /\ pc' = [pc EXCEPT ![t] = "tool_request"]
                    /\ running' = 0
                    /\ UNCHANGED tool_calls
            /\ UNCHANGED tool_results
       ELSE IF ~ValidJSON(tool_calls[t][Len(tool_results[t]) + 1].arguments)
       THEN /\ tool_results' = [tool_results EXCEPT ![t] = Append(@, "{error}")]
            /\ UNCHANGED <<messages, request, pc, running, tool_calls>>
       ELSE /\ pc' = [pc EXCEPT ![t] = "tool_exec"]
            /\ running' = 0
            /\ UNCHANGED <<messages, request, tool_results, tool_calls>>
    /\ UNCHANGED <<envVars, platVars, storeVars, granted, timeVars, new_msg, curr_msg,
                   curr_node, user_warnings, predecessors, respVars, editVars,
                   final_content, chunks, plain_idx, provider,
                   event_log, first_request, evictVars, histVars>>

\* the tool executor returns a result, or raises and the error is the result
ToolExecuted(t) ==
    /\ MayResume(t, "tool_exec")
    /\ \E r \in {"{result}", "{error}"} :
          tool_results' = [tool_results EXCEPT ![t] = Append(@, r)]
    /\ pc' = [pc EXCEPT ![t] = "tool_call"]
    /\ running' = t
    /\ UNCHANGED <<envVars, platVars, storeVars, granted, timeVars, walkVars, respVars,
                   editVars, tool_calls, final_content, chunks, plain_idx,
                   provVars, evictVars, histVars>>

FollowUp(fr, content, calls) == [finish_reason |-> fr, content |-> content, tool_calls |-> calls]

\* in place of a response: the follow-up request raised
Raised == FollowUp("<raised>", None, <<>>)

\* the follow-up response arrives (lines 612-650)
ToolResponse(t) ==
    /\ MayResume(t, "tool_request")
    /\ \/ \E r \in env.followups :
             /\ MoreTools(r) => provider[t].rounds > 0
             /\ finish_reason' = [finish_reason EXCEPT ![t] = r.finish_reason]
             /\ IF MoreTools(r)
                THEN /\ messages' = [messages EXCEPT ![t] =
                                        <<AssistantEntry(r.content, ModelDump(r.tool_calls))>>
                                        \o @]
                     /\ tool_calls' = [tool_calls EXCEPT ![t] = r.tool_calls]
                     /\ provider' = [provider EXCEPT ![t].rounds = @ - 1,
                                                     ![t].given = Append(@, r)]
                     /\ pc' = [pc EXCEPT ![t] = "after_stream"]
                     /\ running' = t
                     /\ UNCHANGED <<final_content, chunks>>
                ELSE IF r.content # None /\ r.content # ""
                THEN /\ final_content' = [final_content EXCEPT ![t] = r.content]
                     /\ chunks' = [chunks EXCEPT ![t] = ChunksOf(r.content)]
                     /\ provider' = [provider EXCEPT ![t].given = Append(@, r)]
                     /\ pc' = [pc EXCEPT ![t] = "tool_send"]
                     /\ running' = 0
                     /\ UNCHANGED <<messages, tool_calls>>
                ELSE /\ tool_calls' = [tool_calls EXCEPT ![t] = <<>>]
                     /\ provider' = [provider EXCEPT ![t].given = Append(@, r)]
                     /\ pc' = [pc EXCEPT ![t] = "after_stream"]
                     /\ running' = t
                     /\ UNCHANGED <<messages, final_content, chunks>>
       \/ \* the request raises (caught at line 652)
          /\ env.followup_fails
          /\ tool_calls' = [tool_calls EXCEPT ![t] = <<>>]
          /\ provider' = [provider EXCEPT ![t].given = Append(@, Raised)]
          /\ pc' = [pc EXCEPT ![t] = "after_stream"]
          /\ running' = t
          /\ UNCHANGED <<messages, finish_reason, final_content, chunks>>
    /\ UNCHANGED <<envVars, platVars, storeVars, granted, timeVars, new_msg, curr_msg,
                   curr_node, user_warnings, predecessors, response_msgs,
                   response_contents, curr_content, start_next_msg, sending, failed,
                   editVars, tool_results, plain_idx, event_log, request,
                   first_request, evictVars, histVars>>

\* the reply that carries a chunk of the answer returns; after the last one
\* the answer joins response_contents and the loop is left
ToolSent(t) ==
    /\ MayResume(t, "tool_send")
    /\ Deliver(t, BotMsg(Head(chunks[t]), <<>>, "", ReplyTo(t)),
               "tool", Len(response_contents[t]) + 1, Head(chunks[t]))
    /\ chunks' = [chunks EXCEPT ![t] = Tail(@)]
    /\ IF Tail(chunks[t]) = <<>>
       THEN /\ response_contents' = [response_contents EXCEPT ![t] =
                                        Append(@, final_content[t])]
            /\ tool_calls' = [tool_calls EXCEPT ![t] = <<>>]
            /\ pc' = [pc EXCEPT ![t] = "after_stream"]
            /\ running' = t
       ELSE UNCHANGED <<response_contents, tool_calls, pc, running>>
    /\ UNCHANGED <<envVars, granted, timeVars, walkVars, curr_content, finish_reason,
                   start_next_msg, sending, failed, editVars, tool_results,
                   final_content, plain_idx, provVars, evictVars, populate_log>>

----------------------------------------------------------------------------
(* Plain delivery (llmcord.py:660-667).                                    *)

PlainOut(t) ==
    /\ Runs(t, "plain_out")
    /\ IF config.use_plain_responses /\ response_contents[t] # <<>>
       THEN /\ plain_idx' = [plain_idx EXCEPT ![t] = 1]
            /\ pc' = [pc EXCEPT ![t] = "plain_send"]
            /\ running' = 0
       ELSE /\ pc' = [pc EXCEPT ![t] = "finalize"]
            /\ UNCHANGED <<plain_idx, running>>
    /\ UNCHANGED <<envVars, platVars, storeVars, granted, timeVars, walkVars, respVars,
                   editVars, tool_calls, tool_results, final_content, chunks,
                   provVars, evictVars, histVars>>

\* the reply that carries a segment returns
PlainSent(t) ==
    /\ MayResume(t, "plain_send")
    /\ IF Refused(response_contents[t][plain_idx[t]], "")
       THEN SendRaises(t) /\ UNCHANGED plain_idx
       ELSE /\ Deliver(t, BotMsg(response_contents[t][plain_idx[t]], <<>>, "",
                                 ReplyTo(t)),
                       "plain", plain_idx[t], response_contents[t][plain_idx[t]])
            /\ plain_idx' = [plain_idx EXCEPT ![t] = @ + 1]
            /\ IF plain_idx[t] = Len(response_contents[t])
               THEN /\ pc' = [pc EXCEPT ![t] = "finalize"]
                    /\ running' = t
               ELSE UNCHANGED <<pc, running>>
            /\ UNCHANGED failed
    /\ UNCHANGED <<envVars, granted, timeVars, walkVars, response_contents,
                   curr_content, finish_reason, start_next_msg, sending,
                   editVars, tool_calls, tool_results, final_content, chunks,
                   provVars, evictVars, populate_log>>

----------------------------------------------------------------------------
(* The end of on_message (llmcord.py:672-680).                             *)

\* the response messages whose nodes the loop of line 672 reaches: it stops
\* with KeyError at the first one that is not in the store
RECURSIVE Reached(_)
Reached(ids) ==
    IF ids = <<>> \/ Head(ids) \notin DOMAIN msg_nodes THEN <<>>
    ELSE <<Head(ids)>> \o Reached(Tail(ids))

\* lines 673-674 left out: the guards stay taken
FinalizedUnreleased(st, ids, text) == st

\* lines 673-674 for each of ids: the node gets the whole response text and
\* its guard is released; st is [heap, granted]
RECURSIVE Finalized(_, _, _)
Finalized(st, ids, text) ==
    IF ids = <<>> THEN st
    ELSE LET n == msg_nodes[Head(ids)]
             h == [st.heap EXCEPT ![n].text = text]
         IN  Finalized([heap |-> Release(h, n), granted |-> Woken(h, n, st.granted)],
                       Tail(ids), text)

\* the slice of line 678 one short
EvictListShort(keys) ==
    IF Cardinality(keys) > MAX_MESSAGE_NODES
    THEN SubSeq(Sorted(keys), 1, Cardinality(keys) - MAX_MESSAGE_NODES - 1)
    ELSE <<>>

\* the slice of line 678 taken from the other end
EvictListHighest(keys) ==
    IF Cardinality(keys) > MAX_MESSAGE_NODES
    THEN SubSeq(Sorted(keys), MAX_MESSAGE_NODES + 1, Cardinality(keys))
    ELSE <<>>

\* line 677-678: the identifiers the pass removes, lowest first
EvictList(keys) ==
    IF Cardinality(keys) > MAX_MESSAGE_NODES
    THEN SubSeq(Sorted(keys), 1, Cardinality(keys) - MAX_MESSAGE_NODES)
    ELSE <<>>

\* the response nodes are finalized and the eviction pass begins
Finalize(t) ==
    LET ids == response_msgs[t]
        st == Finalized([heap |-> heap, granted |-> granted], Reached(ids),
                        Concat(response_contents[t]))
    IN  /\ Runs(t, "finalize")
        /\ heap' = st.heap
        /\ granted' = st.granted
        /\ IF Len(Reached(ids)) < Len(ids)
           THEN /\ pc' = [pc EXCEPT ![t] = "crashed"]
                /\ running' = 0
                /\ UNCHANGED <<evict_ids, pass_keys, pass_waited>>
           ELSE /\ evict_ids' = [evict_ids EXCEPT ![t] = EvictList(DOMAIN msg_nodes)]
                /\ pass_keys' = [pass_keys EXCEPT ![t] = DOMAIN msg_nodes]
                /\ pass_waited' = [pass_waited EXCEPT ![t] = FALSE]
                /\ pc' = [pc EXCEPT ![t] = "evict"]
                /\ UNCHANGED running
        /\ UNCHANGED <<envVars, platVars, msg_nodes, timeVars, walkVars, respVars,
                       editVars, toolVars, provVars, evict_node, evicted, histVars>>

\* one identifier of the pass: `async with setdefault(id).lock: pop(id)`.
\* With the guard free this does not await (a node that setdefault creates
\* here is popped at once); with the guard taken the pass waits.
EvictNext(t) ==
    /\ Runs(t, "evict")
    /\ IF evict_ids[t] = <<>>
       THEN /\ pc' = [pc EXCEPT ![t] = "done"]
            /\ running' = 0
            /\ UNCHANGED <<storeVars, evictVars>>
       ELSE LET id == Head(evict_ids[t])
                held == id \in DOMAIN msg_nodes /\ Locked(heap[msg_nodes[id]])
            IN  IF held
                THEN /\ heap' = [heap EXCEPT ![msg_nodes[id]].waiters = Append(@, t)]
                     /\ evict_node' = [evict_node EXCEPT ![t] = msg_nodes[id]]
                     /\ pass_waited' = [pass_waited EXCEPT ![t] = TRUE]
                     /\ pc' = [pc EXCEPT ![t] = "evict_wait"]
                     /\ running' = 0
                     /\ UNCHANGED <<msg_nodes, evict_ids, pass_keys, evicted>>
                ELSE /\ msg_nodes' = Without(msg_nodes, id)
                     /\ evict_ids' = [evict_ids EXCEPT ![t] = Tail(@)]
                     /\ evicted' = IF id \in DOMAIN msg_nodes
                                   THEN evicted \cup {<<t, id>>} ELSE evicted
                     /\ UNCHANGED <<heap, running, pc, pass_keys, pass_waited,
                                    evict_node>>
    /\ UNCHANGED <<envVars, platVars, granted, timeVars, walkVars, respVars,
                   editVars, toolVars, provVars, histVars>>

\* the awaited guard is handed over: pop the identifier, release the guard
EvictWoken(t) ==
    LET id == Head(evict_ids[t])
    IN  /\ MayResumeWoken(t, "evict_wait")
        /\ msg_nodes' = Without(msg_nodes, id)
        /\ heap' = Release(heap, evict_node[t])
        /\ granted' = Woken(heap, evict_node[t], Tail(granted))
        /\ evict_ids' = [evict_ids EXCEPT ![t] = Tail(@)]
        /\ evicted' = IF id \in DOMAIN msg_nodes
                      THEN evicted \cup {<<t, id>>} ELSE evicted
        /\ pc' = [pc EXCEPT ![t] = "evict"]
        /\ running' = t
        /\ UNCHANGED <<envVars, platVars, timeVars, walkVars, respVars, editVars,
                       toolVars, provVars, pass_keys, pass_waited, evict_node,
                       histVars>>

----------------------------------------------------------------------------
(* The prompt cache (cache_manager.py, CacheManager).  It is not called by *)
(* on_message.                                                             *)

\* the models of a run: allow-listed and Anthropic, allow-listed only,
\* Anthropic only
Models == {"anthropic/claude-3-opus", "openai/gpt-4o", "anthropic/claude-2"}

\* any(supported in model.lower() for supported in self.supported_models)
Supported(model) == model \in {"anthropic/claude-3-opus", "openai/gpt-4o"}

\* "anthropic" in model.lower()
IsAnthropic(model) == model \in {"anthropic/claude-3-opus", "anthropic/claude-2"}

\* _generate_hash: the key of a content
Hash(content) == "#" \o content

\* _should_cache
ShouldCache(content, model) == Supported(model) /\ Len(content) >= SHOULD_CACHE_MIN

CacheEntry(content, t) ==
    [hash |-> Hash(content), content |-> content, timestamp |-> t, hits |-> 0,
     last_accessed |-> t]

\* an access that counts nothing
AccessUncounted(entry, t) == [entry EXCEPT !.last_accessed = t]

\* CacheEntry.access
Access(entry, t) == [entry EXCEPT !.hits = @ + 1, !.last_accessed = t]

\* the position of the entry with this key, or 0
Position(c, h) ==
    IF \E i \in 1 .. Len(c) : c[i].hash = h
    THEN CHOOSE i \in 1 .. Len(c) : c[i].hash = h
    ELSE 0

\* lines 114-125: the message is handled and its content is tracked
Tracked(msg, model) ==
    /\ msg.role = "system" \/ (msg.role = "user" /\ Len(msg.content) > LARGE_USER)
    /\ IsAnthropic(model)
    /\ ShouldCache(msg.content, model)

\* what the history keeps of a write or a hit: its content, its time and the
\* number of the call that made it
Recording(kind, content, t) ==
    [kind |-> kind, content |-> content, clock |-> t, call |-> cache_calls + 1]

\* lines 134-146 for one content; st is [cache, stats, log]
Track(st, content, t) ==
    LET i == Position(st.cache, Hash(content))
    IN  IF i = 0
        THEN [cache |-> Append(st.cache, CacheEntry(content, t)),
              stats |-> [st.stats EXCEPT !.cache_writes = @ + 1],
              log |-> Append(st.log, Recording("write", content, t))]
        ELSE [cache |-> [st.cache EXCEPT ![i] = Access(@, t)],
              stats |-> [st.stats EXCEPT !.cache_hits = @ + 1],
              log |-> Append(st.log, Recording("hit", content, t))]

\* the loop of lines 110-158
RECURSIVE TrackAll(_, _, _, _)
TrackAll(st, msgs, model, t) ==
    IF msgs = <<>> THEN st
    ELSE TrackAll(IF Tracked(Head(msgs), model) THEN Track(st, Head(msgs).content, t)
                  ELSE st,
                  Tail(msgs), model, t)

\* an entry expires a time after its last access
ExpiredSinceAccess(entry, t) == t > entry.last_accessed + TTL_SECONDS

\* line 80: current_time - entry.timestamp > self.ttl_seconds
Expired(entry, t) == t > entry.timestamp + TTL_SECONDS

RECURSIVE Unexpired(_, _)
Unexpired(c, t) ==
    IF c = <<>> THEN <<>>
    ELSE IF Expired(Head(c), t) THEN Unexpired(Tail(c), t)
    ELSE <<Head(c)>> \o Unexpired(Tail(c), t)

\* entry j comes before entry i in sorted(key = timestamp)
AccessedBeforeByCreation(c, j, i) ==
    \/ c[j].timestamp < c[i].timestamp
    \/ (c[j].timestamp = c[i].timestamp /\ j < i)

\* entry j comes before entry i in sorted(key = last_accessed); the sort is
\* stable
AccessedBefore(c, j, i) ==
    \/ c[j].last_accessed < c[i].last_accessed
    \/ (c[j].last_accessed = c[i].last_accessed /\ j < i)

\* lines 88-97: the entries left when the least recently used ones are removed
RECURSIVE KeptFrom(_, _, _)
KeptFrom(c, i, n) ==
    IF i > Len(c) THEN <<>>
    ELSE IF Cardinality({j \in 1 .. Len(c) : AccessedBefore(c, j, i)}) < n
    THEN KeptFrom(c, i + 1, n)
    ELSE <<c[i]>> \o KeptFrom(c, i + 1, n)

WithinSize(c) ==
    IF Len(c) > MAX_CACHE_SIZE THEN KeptFrom(c, 1, Len(c) - MAX_CACHE_SIZE) ELSE c

\* _evict_old_entries; st is [cache, stats, log]
Evicted(st, t) ==
    LET live == Unexpired(st.cache, t)
        kept == WithinSize(live)
    IN  [st EXCEPT !.cache = kept,
                   !.stats.evictions_ttl = @ + (Len(st.cache) - Len(live)),
                   !.stats.evictions_lru = @ + (Len(live) - Len(kept))]

\* prepare_messages_for_caching(messages, model), with the eviction pass
\* that ends it; a model outside the allow-list returns at once
Prepare(msgs, model) ==
    /\ cache_calls < MaxCalls
    /\ cache_calls' = cache_calls + 1
    /\ IF ~Supported(model)
       THEN UNCHANGED <<cache, cache_stats, recorded, last_pass>>
       ELSE LET st == Evicted(TrackAll([cache |-> cache, stats |-> cache_stats,
                                        log |-> recorded], msgs, model, clock),
                              clock)
            IN  /\ cache' = st.cache
                /\ cache_stats' = st.stats
                /\ recorded' = st.log
                /\ last_pass' = clock
    /\ UNCHANGED <<config, env, selector, clock, platVars, storeVars, schedVars,
                   timeVars, pc, walkVars, respVars, editVars, toolVars, provVars,
                   evictVars, histVars>>

\* time passes between two calls
CacheTick ==
    /\ clock < MaxClock
    /\ clock' = clock + 1
    /\ UNCHANGED <<config, env, selector, cache, cache_stats, last_pass, recorded,
                   cache_calls, platVars, storeVars, schedVars, timeVars, pc,
                   walkVars, respVars, editVars, toolVars, provVars, evictVars,
                   histVars>>

\* a clear that empties the cache and keeps the counters
ClearEntriesOnly ==
    /\ cache' = <<>>
    /\ UNCHANGED <<config, env, selector, cache_stats, clock, last_pass, recorded,
                   cache_calls, platVars, storeVars, schedVars, timeVars, pc,
                   walkVars, respVars, editVars, toolVars, provVars, evictVars,
                   histVars>>

\* clear_cache: cache.clear() and cache_stats.clear(); cache_stats is a
\* defaultdict(int), so every counter reads 0 afterwards
ClearCache ==
    /\ cache' = <<>>
    /\ cache_stats' = [cache_writes |-> 0, cache_hits |-> 0,
                       evictions_ttl |-> 0, evictions_lru |-> 0]
    /\ UNCHANGED <<config, env, selector, clock, last_pass, recorded, cache_calls,
                   platVars, storeVars, schedVars, timeVars, pc, walkVars, respVars,
                   editVars, toolVars, provVars, evictVars, histVars>>

\* sum(entry.hits for entry in self.cache.values())
RECURSIVE SumHits(_)
SumHits(c) == IF c = <<>> THEN 0 ELSE Head(c).hits + SumHits(Tail(c))

\* get_cache_stats; hit_rate is <<numerator, denominator>>
get_cache_stats ==
    LET total == cache_stats.cache_hits + cache_stats.cache_writes
    IN  [total_entries |-> Len(cache),
         total_hits |-> SumHits(cache),
         cache_writes |-> cache_stats.cache_writes,
         cache_hits |-> cache_stats.cache_hits,
         evictions_ttl |-> cache_stats.evictions_ttl,
         evictions_lru |-> cache_stats.evictions_lru,
         hit_rate |-> IF total > 0 THEN <<cache_stats.cache_hits, total>> ELSE <<0, 1>>]

\* the message lists of the calls: one or two messages; "a" is too short to
\* cache, "abc" is cached for a system message only
CacheMessages == [role : {"system", "user"}, content : {"a", "abc", "abcd", "wxyz"}]

CacheInputs == UNION {[1 .. n -> CacheMessages] : n \in 1 .. 2}

----------------------------------------------------------------------------
(* The runs.  env says what the users, the provider and the clock may do;  *)
(* config is what config.yaml and the chosen model give.                   *)

Config(plain, prompt, anthropic) ==
    [use_plain_responses |-> plain, system_prompt |-> prompt, is_anthropic |-> anthropic]

OneCall == <<Fragment(0, "c1", "f", "{}")>>
CallObject(id, name, arguments) ==
    [id |-> id, name |-> name, arguments |-> arguments, dict |-> FALSE]
OneCalls == <<CallObject("c2", "f", "{}")>>
ThreeCalls ==
    <<CallObject("c4", "f", "{}"), CallObject("c5", "g", "{}"), CallObject("c6", "f", "{")>>
TwoCalls == <<Fragment(0, "c1", "f", "{}"), Fragment(1, "c3", "g", "{}")>>

\* concurrent handlers on either channel; the provider streams "ab" a
\* character at a time
EnvConcurrent ==
    [turns |-> NumTurns, platforms |-> Platforms, leaves |-> {1, 3, 4},
     texts |-> {"a"}, deltas |-> {1}, frags |-> {<<>>},
     finishes |-> {"stop"}, no_choice |-> FALSE,
     followups |-> {FollowUp("stop", "ok", <<>>)},
     max_events |-> 1, rounds |-> 0, max_now |-> 1,
     fetch_fails |-> FALSE, stream_fails |-> FALSE, followup_fails |-> FALSE,
     configs |-> {Config(FALSE, "", FALSE), Config(TRUE, "sys", TRUE)}]

\* one handler for message 3 of PlatformA (a chain of three messages); the
\* provider streams any text of its set in any deltas
EnvStream ==
    [turns |-> 1, platforms |-> {PlatformA}, leaves |-> {3},
     texts |-> {"Hello", "abcdef"}, deltas |-> 0 .. 6,
     frags |-> {<<>>},
     finishes |-> {"stop"}, no_choice |-> TRUE,
     followups |-> {FollowUp("stop", "ok", <<>>)},
     max_events |-> MaxEvents, rounds |-> 0, max_now |-> MaxNow,
     fetch_fails |-> FALSE, stream_fails |-> FALSE, followup_fails |-> FALSE,
     configs |-> {Config(FALSE, "", FALSE), Config(TRUE, "", FALSE)}]

\* one handler for message 3 of PlatformA; the provider may ask for tools,
\* in the stream and once more in a follow-up response
EnvTools ==
    [turns |-> 1, platforms |-> {PlatformA}, leaves |-> {3},
     texts |-> {"", "ab"}, deltas |-> 0 .. 2, frags |-> {<<>>, OneCall, TwoCalls},
     finishes |-> {"stop", "tool_calls"}, no_choice |-> FALSE,
     followups |-> {FollowUp("stop", "ok", <<>>), FollowUp("stop", None, <<>>),
                    FollowUp("tool_calls", None, OneCalls)},
     max_events |-> MaxEvents - 1, rounds |-> MaxRounds - 1, max_now |-> MaxNow,
     fetch_fails |-> FALSE, stream_fails |-> FALSE, followup_fails |-> FALSE,
     configs |-> {Config(FALSE, "", FALSE), Config(TRUE, "", FALSE)}]

\* nothing arrives: the handlers stay idle
EnvIdle ==
    [turns |-> 0, platforms |-> {PlatformA}, leaves |-> {},
     texts |-> {""}, deltas |-> {0}, frags |-> {<<>>},
     finishes |-> {"stop"}, no_choice |-> FALSE,
     followups |-> {FollowUp("stop", "ok", <<>>)},
     max_events |-> 0, rounds |-> 0, max_now |-> 1,
     fetch_fails |-> FALSE, stream_fails |-> FALSE, followup_fails |-> FALSE,
     configs |-> {Config(FALSE, "", TRUE)}]

\* two handlers for message 3 of PlatformA, with embeds; an attachment fetch
\* and the completion stream may raise
EnvFail ==
    [turns |-> NumTurns, platforms |-> {PlatformA}, leaves |-> {3},
     texts |-> {"a"}, deltas |-> {0, 1}, frags |-> {<<>>},
     finishes |-> {"stop"}, no_choice |-> FALSE,
     followups |-> {FollowUp("stop", "ok", <<>>)},
     max_events |-> MaxEvents - 1, rounds |-> 0, max_now |-> 1,
     fetch_fails |-> TRUE, stream_fails |-> TRUE, followup_fails |-> FALSE,
     configs |-> {Config(FALSE, "", FALSE)}]

\* concurrent handlers for message 4 of a chain of four messages, one more
\* than max_messages
EnvChain ==
    [turns |-> NumTurns, platforms |-> {PlatformC, PlatformD}, leaves |-> {4},
     texts |-> {"a"}, deltas |-> {1}, frags |-> {<<>>},
     finishes |-> {"stop"}, no_choice |-> FALSE,
     followups |-> {FollowUp("stop", "ok", <<>>)},
     max_events |-> 1, rounds |-> 0, max_now |-> 1,
     fetch_fails |-> FALSE, stream_fails |-> FALSE, followup_fails |-> FALSE,
     configs |-> {Config(FALSE, "", FALSE), Config(TRUE, "sys", TRUE)}]

\* concurrent handlers on a channel where a parent was deleted (PlatformB)
\* or where the chain has four messages (PlatformC, PlatformD)
EnvWarnings ==
    [turns |-> NumTurns, platforms |-> {PlatformB, PlatformC, PlatformD},
     leaves |-> {1, 3, 4},
     texts |-> {"a"}, deltas |-> {1}, frags |-> {<<>>},
     finishes |-> {"stop"}, no_choice |-> FALSE,
     followups |-> {FollowUp("stop", "ok", <<>>)},
     max_events |-> 1, rounds |-> 0, max_now |-> 1,
     fetch_fails |-> FALSE, stream_fails |-> FALSE, followup_fails |-> FALSE,
     configs |-> {Config(FALSE, "", FALSE), Config(TRUE, "sys", TRUE)}]

\* two handlers with embeds for message 2 of PlatformE (a message on its own)
\* while the clock runs: the provider streams "abcd" a character at a time,
\* or "x" and the request of a tool, and answers the tool round with a text
\* of two chunks
EnvThrottle ==
    [turns |-> NumTurns, platforms |-> {PlatformE}, leaves |-> {2},
     texts |-> {"x", "abcd"}, deltas |-> {1}, frags |-> {<<>>, OneCall},
     finishes |-> {"stop", "tool_calls"}, no_choice |-> FALSE,
     followups |-> {FollowUp("stop", "okokok", <<>>)},
     max_events |-> MaxEvents, rounds |-> 0, max_now |-> MaxNow,
     fetch_fails |-> FALSE, stream_fails |-> FALSE, followup_fails |-> FALSE,
     configs |-> {Config(FALSE, "", FALSE)}]

\* one handler on any reply graph, a forest or not
EnvCycle ==
    [turns |-> 1, platforms |-> ReplyGraphs, leaves |-> {1, MaxGraph},
     texts |-> {""}, deltas |-> {0}, frags |-> {<<>>},
     finishes |-> {"stop"}, no_choice |-> FALSE,
     followups |-> {FollowUp("stop", "ok", <<>>)},
     max_events |-> 1, rounds |-> 0, max_now |-> 1,
     fetch_fails |-> FALSE, stream_fails |-> FALSE, followup_fails |-> FALSE,
     configs |-> {Config(FALSE, "", FALSE)}]

\* concurrent handlers whose fetches and whose stream may raise
EnvGuards ==
    [turns |-> NumTurns, platforms |-> {PlatformA, PlatformB}, leaves |-> {1, 3},
     texts |-> {"a"}, deltas |-> {1}, frags |-> {<<>>},
     finishes |-> {"stop"}, no_choice |-> FALSE,
     followups |-> {FollowUp("stop", "ok", <<>>)},
     max_events |-> 1, rounds |-> 0, max_now |-> 1,
     fetch_fails |-> TRUE, stream_fails |-> TRUE, followup_fails |-> FALSE,
     configs |-> {Config(FALSE, "", FALSE), Config(TRUE, "sys", TRUE)}]

\* a handler for message 3 of PlatformA and a handler for a user's reply to
\* a response message of the first; the provider streams "abcd" a character at
\* a time, and the stream may raise
EnvReply ==
    [turns |-> NumTurns, platforms |-> {PlatformA}, leaves |-> {3} \cup (6 .. 9),
     texts |-> {"abcd"}, deltas |-> {1}, frags |-> {<<>>},
     finishes |-> {"stop"}, no_choice |-> FALSE,
     followups |-> {FollowUp("stop", "ok", <<>>)},
     max_events |-> MaxEvents, rounds |-> 0, max_now |-> MaxNow,
     fetch_fails |-> FALSE, stream_fails |-> TRUE, followup_fails |-> FALSE,
     configs |-> {Config(FALSE, "", FALSE), Config(TRUE, "", FALSE)}]

\* up to MaxTurns handlers, for message 1 or message 4 of PlatformE; the
\* provider answers with an empty text
EnvStale ==
    [turns |-> MaxTurns, platforms |-> {PlatformE}, leaves |-> {1, 4},
     texts |-> {""}, deltas |-> {0}, frags |-> {<<>>},
     finishes |-> {"stop"}, no_choice |-> FALSE,
     followups |-> {FollowUp("stop", "ok", <<>>)},
     max_events |-> 1, rounds |-> 0, max_now |-> 1,
     fetch_fails |-> FALSE, stream_fails |-> FALSE, followup_fails |-> FALSE,
     configs |-> {Config(FALSE, "", FALSE)}]

\* one handler for message 3 of PlatformA; the stream carries no text and
\* asks for one or two tools; the follow-up responses answer (in up to 17
\* characters), ask for one or three more tools, give calls with another
\* finish reason, give the tool finish reason without calls, or raise
EnvRounds ==
    [turns |-> 1, platforms |-> {PlatformA}, leaves |-> {3},
     texts |-> {""}, deltas |-> {0}, frags |-> {OneCall, TwoCalls},
     finishes |-> {"tool_calls"}, no_choice |-> FALSE,
     followups |-> {FollowUp("stop", "ok", <<>>), FollowUp("stop", None, <<>>),
                    FollowUp("stop", "abcdefg", <<>>),
                    FollowUp("stop", "abcdefghijklmnopq", <<>>),
                    FollowUp("tool_calls", "ok", <<>>),
                    FollowUp("stop", None, OneCalls),
                    FollowUp("tool_calls", None, OneCalls),
                    FollowUp("tool_calls", None, ThreeCalls)},
     max_events |-> 2, rounds |-> MaxRounds, max_now |-> 1,
     fetch_fails |-> FALSE, stream_fails |-> FALSE, followup_fails |-> TRUE,
     configs |-> {Config(FALSE, "", FALSE), Config(TRUE, "", FALSE)}]

\* the tool-call fragments a stream may carry: up to MaxFrags of them, for
\* index 0 or 1, each with a piece of the arguments
FragmentInputs ==
    UNION {[1 .. n -> {Fragment(i, "c", "f", a) : i \in {0, 1}, a \in {"x", "y"}}] :
              n \in 1 .. MaxFrags}

\* one handler for message 3 of PlatformA, with embeds; the provider streams
\* no text but tool-call fragments, one an event, in any order of index, and
\* ends with "stop"
EnvFragments ==
    [turns |-> 1, platforms |-> {PlatformA}, leaves |-> {3},
     texts |-> {""}, deltas |-> {0}, frags |-> FragmentInputs,
     finishes |-> {"stop"}, no_choice |-> FALSE,
     followups |-> {FollowUp("stop", "ok", <<>>)},
     max_events |-> MaxEvents, rounds |-> 0, max_now |-> 1,
     fetch_fails |-> FALSE, stream_fails |-> FALSE, followup_fails |-> FALSE,
     configs |-> {Config(FALSE, "", FALSE)}]

\* the lists given to the selector: up to MaxList entries, user or system,
\* with a text below MIN_CACHE_LENGTH, at it, or above it
SelectorEntries ==
    [role : {"user", "system"}, content : {"ab", "abc", "abcd"},
     images : {<<>>}, src : {NoMsg}, cache_control : {FALSE}]

SelectorInputs ==
    UNION {[1 .. n -> SelectorEntries] : n \in 0 .. MaxList}

NotSelected == [messages |-> <<>>, result |-> <<>>, returned |-> FALSE]

Handlers(e) ==
    /\ env = e
    /\ config \in e.configs
    /\ platform \in e.platforms
    /\ next_id = 5
    /\ msg_nodes = [m \in {} |-> 0]
    /\ heap = <<>>
    /\ running = 0
    /\ granted = <<>>
    /\ now = 1
    /\ last_task_time = 0
    /\ pc = [t \in Turns |-> "idle"]
    /\ new_msg = [t \in Turns |-> NoMsg]
    /\ curr_msg = [t \in Turns |-> NoMsg]
    /\ curr_node = [t \in Turns |-> 0]
    /\ messages = [t \in Turns |-> <<>>]
    /\ user_warnings = [t \in Turns |-> {}]
    /\ predecessors = [t \in Turns |-> {}]
    /\ response_msgs = [t \in Turns |-> <<>>]
    /\ response_contents = [t \in Turns |-> <<>>]
    /\ curr_content = [t \in Turns |-> None]
    /\ finish_reason = [t \in Turns |-> None]
    /\ start_next_msg = [t \in Turns |-> FALSE]
    /\ sending = [t \in Turns |-> [description |-> "", color |-> "", seg |-> 0]]
    /\ failed = [t \in Turns |-> FALSE]
    /\ edit_task = [t \in Turns |-> 0]
    /\ edits = {}
    /\ issued = [t \in Turns |-> 0]
    /\ applied = [t \in Turns |-> <<>>]
    /\ edit_error = [t \in Turns |-> FALSE]
    /\ tool_calls = [t \in Turns |-> <<>>]
    /\ tool_results = [t \in Turns |-> <<>>]
    /\ final_content = [t \in Turns |-> None]
    /\ chunks = [t \in Turns |-> <<>>]
    /\ plain_idx = [t \in Turns |-> 0]
    /\ provider = [t \in Turns |-> NoStream]
    /\ event_log = [t \in Turns |-> <<>>]
    /\ request = [t \in Turns |-> <<>>]
    /\ first_request = [t \in Turns |-> <<>>]
    /\ evict_ids = [t \in Turns |-> <<>>]
    /\ pass_keys = [t \in Turns |-> {}]
    /\ pass_waited = [t \in Turns |-> FALSE]
    /\ evict_node = [t \in Turns |-> 0]
    /\ evicted = {}
    /\ populate_log = {}
    /\ sent = <<>>

\* CacheManager.__init__
FreshCache ==
    /\ cache = <<>>
    /\ cache_stats = [cache_writes |-> 0, cache_hits |-> 0,
                      evictions_ttl |-> 0, evictions_lru |-> 0]
    /\ clock = 0
    /\ last_pass = 0
    /\ recorded = <<>>
    /\ cache_calls = 0

InitWith(e) == Handlers(e) /\ selector = NotSelected /\ FreshCache

\* the selector is about to be called with any list
InitSelector ==
    /\ Handlers(EnvIdle)
    /\ \E msgs \in SelectorInputs :
          selector = [messages |-> msgs, result |-> <<>>, returned |-> FALSE]
    /\ FreshCache

InitCache == InitWith(EnvIdle)

Init == InitWith(EnvConcurrent)
InitFail == InitWith(EnvFail)
InitFragments == InitWith(EnvFragments)
InitChain == InitWith(EnvChain)
InitRounds == InitWith(EnvRounds)
InitStream == InitWith(EnvStream)
InitTools == InitWith(EnvTools)
InitWarnings == InitWith(EnvWarnings)
InitStale == InitWith(EnvStale)
InitReply == InitWith(EnvReply)
InitGuards == InitWith(EnvGuards)
InitCycle == InitWith(EnvCycle)
InitThrottle == InitWith(EnvThrottle)

Next ==
    \E t \in Turns :
        \/ Start(t) \/ WalkNext(t) \/ WalkLocked(t) \/ WalkFetched(t) \/ WalkWoken(t)
        \/ Assembled(t) \/ WarnSent(t) \/ StreamChunk(t) \/ Render(t) \/ Replied(t)
        \/ AfterStream(t) \/ PlainOut(t) \/ PlainSent(t)
        \/ Finalize(t) \/ EvictNext(t) \/ EvictWoken(t)

\* a handler alone never waits for a guard; the provider of EnvStream never
\* asks for tools
NextStream ==
    \/ \E t \in Turns :
        \/ Start(t) \/ WalkNext(t) \/ WalkLocked(t) \/ WalkFetched(t)
        \/ Assembled(t) \/ StreamChunk(t) \/ EditAwaited(t) \/ Render(t) \/ Replied(t)
        \/ AfterStream(t) \/ PlainOut(t) \/ PlainSent(t)
        \/ Finalize(t) \/ EvictNext(t)
    \/ EditDone
    \/ Tick

NextTools ==
    \/ \E t \in Turns :
        \/ Start(t) \/ WalkNext(t) \/ WalkLocked(t) \/ WalkFetched(t)
        \/ Assembled(t) \/ StreamChunk(t) \/ Render(t) \/ Replied(t)
        \/ AfterStream(t) \/ ToolCall(t) \/ ToolExecuted(t) \/ ToolResponse(t)
        \/ ToolSent(t) \/ PlainOut(t) \/ PlainSent(t)
        \/ Finalize(t) \/ EvictNext(t)
    \/ EditDone
    \/ Tick

\* apply_anthropic_cache_control(messages, config) returns
Select ==
    /\ ~selector.returned
    /\ selector' = [selector EXCEPT
                       !.result = apply_anthropic_cache_control(selector.messages),
                       !.returned = TRUE]
    /\ UNCHANGED <<config, env, cacheVars, platVars, storeVars, schedVars, timeVars,
                   pc, walkVars, respVars, editVars, toolVars, provVars, evictVars,
                   histVars>>

NextCache == (\E msgs \in CacheInputs, model \in Models : Prepare(msgs, model)) \/ CacheTick

\* two handlers with embeds and a stream of three events at most: no edit is
\* awaited, no tool is asked for
NextFail ==
    \/ \E t \in Turns :
        \/ Start(t) \/ WalkNext(t) \/ WalkLocked(t) \/ WalkFetched(t) \/ WalkWoken(t)
        \/ Assembled(t) \/ StreamChunk(t) \/ Render(t) \/ Replied(t)
        \/ AfterStream(t) \/ PlainOut(t)
        \/ Finalize(t) \/ EvictNext(t) \/ EvictWoken(t)
    \/ EditDone

\* one handler, no text: nothing is rendered or sent
NextFragments ==
    \E t \in Turns :
        \/ Start(t) \/ WalkNext(t) \/ WalkLocked(t) \/ WalkFetched(t)
        \/ Assembled(t) \/ StreamChunk(t) \/ AfterStream(t) \/ PlainOut(t)
        \/ Finalize(t) \/ EvictNext(t)

\* one handler, no streamed text: nothing is rendered while the stream is read
NextRounds ==
    \E t \in Turns :
        \/ Start(t) \/ WalkNext(t) \/ WalkLocked(t) \/ WalkFetched(t)
        \/ Assembled(t) \/ StreamChunk(t) \/ AfterStream(t)
        \/ ToolCall(t) \/ ToolExecuted(t) \/ ToolResponse(t) \/ ToolSent(t)
        \/ PlainOut(t) \/ PlainSent(t) \/ Finalize(t) \/ EvictNext(t)

\* The event loop runs the wake-ups in the order they were scheduled
\* (call_soon): a handler woken by a guard's release runs before any handler
\* whose await completes after the release.  A handler that was waiting for
\* get_config before the release may have been scheduled first.  No handler
\* begins while a woken handler has yet to run.
InOrder(t) ==
    IF granted = <<>> THEN TRUE
    ELSE running = t \/ Head(granted) = t \/ pc[t] = "get_config"

\* the first two messages to arrive are message 1, the others message 4
StaleLeaf(t) == IF t <= 2 THEN 1 ELSE 4

\* the handlers of EnvStale, their wake-ups in order; nothing is rendered
\* or sent
NextStale ==
    \E t \in Turns :
        \/ InOrder(t) /\ Start(t) /\ new_msg'[t] = StaleLeaf(t)
        \/ InOrder(t) /\ WalkNext(t)
        \/ InOrder(t) /\ WalkLocked(t)
        \/ InOrder(t) /\ WalkFetched(t)
        \/ InOrder(t) /\ WalkWoken(t)
        \/ InOrder(t) /\ Assembled(t)
        \/ InOrder(t) /\ StreamChunk(t)
        \/ InOrder(t) /\ AfterStream(t)
        \/ InOrder(t) /\ PlainOut(t)
        \/ InOrder(t) /\ Finalize(t)
        \/ InOrder(t) /\ EvictNext(t)
        \/ InOrder(t) /\ EvictWoken(t)

\* the second message to arrive is a user's reply to a response message; the
\* nodes an eviction pass removes here are those of messages 1 to 3, whose
\* guards are free when a pass runs
NextReply ==
    \/ \E t \in Turns :
        \/ Start(t) /\ (new_msg'[t] >= 5 <=> t > 1)
        \/ WalkNext(t) \/ WalkLocked(t) \/ WalkFetched(t) \/ WalkWoken(t)
        \/ Assembled(t) \/ StreamChunk(t) \/ EditAwaited(t) \/ Render(t) \/ Replied(t)
        \/ AfterStream(t) \/ PlainOut(t) \/ PlainSent(t)
        \/ Finalize(t) \/ EvictNext(t)
    \/ EditDone
    \/ Tick
    \/ UserReply

Spec == Init /\ [][Next]_vars

SpecReply == InitReply /\ [][NextReply]_vars

SpecStale == InitStale /\ [][NextStale]_vars

SpecChain == InitChain /\ [][Next]_vars

SpecRounds == InitRounds /\ [][NextRounds]_vars

\* the event loop resumes a handler whose await has completed, and the
\* provider, the tools and the platform answer every request
SpecRoundsLive == SpecRounds /\ WF_vars(NextRounds)

SpecFragments == InitFragments /\ [][NextFragments]_vars

SpecFail == InitFail /\ [][NextFail]_vars

\* the provider streams text to the first handler and asks the second for a
\* tool; the walk of the one message awaits nothing
NextThrottle ==
    \/ \E t \in Turns :
        \/ Start(t) \/ WalkNext(t) \/ WalkLocked(t)
        \/ Assembled(t) /\ (provider'[t].frags = <<>> <=> t = 1)
                        /\ (provider'[t].text = "x" <=> t > 1)
        \/ StreamChunk(t) \/ EditAwaited(t) \/ Render(t) \/ Replied(t)
        \/ AfterStream(t) \/ ToolCall(t) \/ ToolExecuted(t) \/ ToolResponse(t)
        \/ ToolSent(t) \/ PlainOut(t)
        \/ Finalize(t) \/ EvictNext(t)
    \/ EditDone
    \/ Tick

SpecThrottle == InitThrottle /\ [][NextThrottle]_vars

SpecCycle == InitCycle /\ [][NextFragments]_vars

\* the awaits of the handler complete and the loop runs it
SpecCycleLive == SpecCycle /\ WF_vars(NextFragments)

SpecGuards == InitGuards /\ [][Next]_vars

\* every await of a handler completes (the platform and the provider answer
\* or raise) and the loop runs a handler that is ready
SpecGuardsLive == SpecGuards /\ WF_vars(Next)

SpecCache == InitCache /\ [][NextCache]_vars

\* the message lists of the calls when the cache may be cleared: a system
\* prompt, two large user messages and a user message too short to cache
ClearInputs ==
    {msgs \in CacheInputs :
        \A i \in 1 .. Len(msgs) :
            msgs[i] \in {[role |-> "system", content |-> "abc"],
                         [role |-> "user", content |-> "a"],
                         [role |-> "user", content |-> "abcd"],
                         [role |-> "user", content |-> "wxyz"]}}

\* the calls of prepare_messages_for_caching and of clear_cache, in any order
NextCacheClear ==
    \/ \E msgs \in ClearInputs, model \in Models : Prepare(msgs, model)
    \/ CacheTick
    \/ ClearCache

SpecCacheClear == InitCache /\ [][NextCacheClear]_vars

SpecSelector == InitSelector /\ [][Select]_vars

SpecStream == InitStream /\ [][NextStream]_vars

SpecTools == InitTools /\ [][NextTools]_vars

SpecWarnings == InitWarnings /\ [][Next]_vars

----------------------------------------------------------------------------
(* Properties of the conversation list and of the node store.              *)

WalkPcs == {"idle", "get_config", "walk", "wait_lock", "locked", "fetch",
            "assembled", "warn_send"}

\* the handler has made its streamed request
Requested(t) == pc[t] \notin WalkPcs

\* the reply chain of message m on the platform, the leaf first
RECURSIVE Chain(_, _, _)
Chain(P, m, fuel) ==
    IF m = NoMsg \/ fuel = 0 THEN <<>>
    ELSE <<m>> \o Chain(P, ResolveParent(P, m).parent, fuel - 1)

ChainOf(t) == Chain(platform, new_msg[t], max_messages + 1)

\* the message has text (a body, an embed, a text attachment) or an image
\* that is kept
NotEmpty(P, m) ==
    \/ P[m].body # "" \/ P[m].embeds # <<>>
    \/ BodiesOfType(P[m].atts, "text") # <<>>
    \/ (max_images > 0 /\ BodiesOfType(P[m].atts, "image") # <<>>)

RECURSIVE NotEmptyOnly(_, _)
NotEmptyOnly(P, ms) ==
    IF ms = <<>> THEN <<>>
    ELSE IF NotEmpty(P, Head(ms)) THEN <<Head(ms)>> \o NotEmptyOnly(P, Tail(ms))
    ELSE NotEmptyOnly(P, Tail(ms))

\* the messages the entries of a request were made from, without the system
\* prompt's entry
RECURSIVE Sources(_)
Sources(req) ==
    IF req = <<>> THEN <<>>
    ELSE IF Head(req).role = "system" THEN Sources(Tail(req))
    ELSE <<Head(req).src>> \o Sources(Tail(req))

\* C1 as stated: for a chain of L <= max_messages messages the request has
\* min(L, max_messages) entries, one per chain message, oldest first and the
\* leaf last.
C1_OneEntryPerMessage ==
    \A t \in Turns :
        (Requested(t) /\ Len(ChainOf(t)) <= max_messages)
        => /\ Len(Sources(first_request[t])) = Min(Len(ChainOf(t)), max_messages)
           /\ Sources(first_request[t]) = Reverse(ChainOf(t))

\* C1, amended: for a chain of L <= max_messages messages the request has one
\* entry per chain message that is not empty (a message without text and
\* without a kept image gives no entry), oldest first and the leaf's entry
\* last; the system prompt's entry, when there is one, comes before them.
C1_OneEntryPerNonEmptyMessage ==
    \A t \in Turns :
        (Requested(t) /\ Len(ChainOf(t)) <= max_messages)
        => /\ Sources(first_request[t]) = Reverse(NotEmptyOnly(platform, ChainOf(t)))
           /\ \A i \in 1 .. Len(first_request[t]) :
                 first_request[t][i].role = "system" => i = 1
           /\ (config.system_prompt # "") =
                 (first_request[t] # <<>> /\ first_request[t][1].role = "system")

\* a request made for a chain of three messages, with three entries
C1_Witness ==
    \E t \in Turns :
        /\ Requested(t) /\ Len(ChainOf(t)) = 3
        /\ Len(Sources(first_request[t])) = 3

Overlap(a, b) == a # b /\ a \notin predecessors[b] /\ b \notin predecessors[a]

\* C2 as stated: a message that two concurrent handlers both walk is
\* populated once, by one of them only.
C2_MessagePopulatedOnce ==
    \A p, q \in populate_log :
        (p[2] = q[2] /\ Overlap(p[1], q[1])) => p = q

\* C2, amended: a node is populated at most once (a handler that finds the
\* guard taken waits and then reuses the fields); a message is populated a
\* second time only through a new node, after an eviction pass removed the
\* node it had.
C2_NodePopulatedOnce ==
    \A p, q \in populate_log :
        (p # q /\ p[2] = q[2])
        => /\ p[3] # q[3]
           /\ \E e \in evicted : e[2] = p[2]

\* a handler that waited is handed the guard of a node that another handler,
\* running at the same time, has populated meanwhile
C2_Witness ==
    \E t \in Turns :
        /\ pc[t] = "wait_lock"
        /\ heap[curr_node[t]].lock = t
        /\ \E p \in populate_log :
              p[3] = curr_node[t] /\ Overlap(p[1], t) /\ p[2] = curr_msg[t]

AttachmentFetches(t) ==
    {p \in populate_log : p[1] = t /\ GoodAttachments(platform[p[2]].atts) # <<>>}

\* handler b began after handler a had returned, for the same message
Rerun(a, b) == a \in predecessors[b] /\ new_msg[a] = new_msg[b] /\ Requested(b)

StoreSize == Cardinality(DOMAIN msg_nodes)

\* C4 as stated: the store never holds more than MAX_MESSAGE_NODES entries.
C4_NeverAboveCapacity == StoreSize <= MAX_MESSAGE_NODES

\* the handler's eviction pass ends in this step, and it never waited
PassEnds(t) == pc[t] = "evict" /\ pc'[t] = "done"

\* C4, amended: an insertion evicts nothing, so the store may exceed
\* MAX_MESSAGE_NODES while handlers run; when the eviction pass at the end of
\* a handler finishes without having waited for a guard, the store holds at
\* most MAX_MESSAGE_NODES entries.
C4_AtCapacityAfterPass ==
    [][\A t \in Turns :
          (PassEnds(t) /\ ~pass_waited[t])
          => Cardinality(DOMAIN msg_nodes') <= MAX_MESSAGE_NODES]_vars

\* a pass that began above capacity and did not wait has ended at capacity
C4_Witness ==
    \E t \in Turns :
        /\ pc[t] = "done" /\ ~pass_waited[t] /\ running = 0
        /\ Cardinality(pass_keys[t]) > MAX_MESSAGE_NODES
        /\ StoreSize = MAX_MESSAGE_NODES

\* the MAX_MESSAGE_NODES highest identifiers of a set
Highest(keys) ==
    {k \in keys : Cardinality({j \in keys : j > k}) < MAX_MESSAGE_NODES}

\* C5 as stated: when a pass that began above capacity ends, the store holds
\* exactly the MAX_MESSAGE_NODES highest identifiers it held.
C5_SurvivorsAreHighest ==
    [][\A t \in Turns :
          (PassEnds(t) /\ Cardinality(pass_keys[t]) > MAX_MESSAGE_NODES)
          => DOMAIN msg_nodes' = Highest(pass_keys[t])]_vars

\* C5, amended: a pass removes only identifiers that are not among the
\* MAX_MESSAGE_NODES highest the store held when the pass began; when a pass
\* that began above capacity ends without having waited for a guard, the
\* store holds exactly those highest identifiers.
C5_SurvivorsAreHighestUnlessWaited ==
    [][/\ \A t \in Turns :
             (PassEnds(t) /\ ~pass_waited[t]
                  /\ Cardinality(pass_keys[t]) > MAX_MESSAGE_NODES)
             => DOMAIN msg_nodes' = Highest(pass_keys[t])
       /\ \A e \in evicted' : e[2] \in pass_keys'[e[1]] \ Highest(pass_keys'[e[1]])]_vars

\* a pass has removed the lowest identifier and left the highest ones
C5_Witness ==
    \E t \in Turns :
        /\ pc[t] = "done" /\ ~pass_waited[t]
        /\ \E e \in evicted : e[1] = t
        /\ DOMAIN msg_nodes = Highest(pass_keys[t])

----------------------------------------------------------------------------
(* Properties of the stream dispatcher and of the delivery.                *)

EditsOf(t) == {e \in edits : e.turn = t}

Increasing(s) == \A i, j \in 1 .. Len(s) : i < j => s[i] < s[j]

C7_StopsAtFinishReason ==
    [][\A t \in Turns :
          (pc[t] = "stream" /\ finish_reason[t] # None)
          => /\ response_contents'[t] = response_contents[t]
             /\ tool_calls'[t] = tool_calls[t]
             /\ finish_reason'[t] = finish_reason[t]
             /\ event_log'[t] # event_log[t] => pc'[t] = "after_stream"]_vars

\* an event with text and a tool-call fragment came after the terminal event
\* and left no trace
C7_Witness ==
    \E t \in Turns :
        /\ pc[t] = "after_stream" /\ Len(event_log[t]) = 2
        /\ event_log[t][1].finish_reason = "stop"
        /\ event_log[t][2].content # "" /\ event_log[t][2].tool_calls # <<>>
        /\ response_contents[t] = <<event_log[t][1].content>>
        /\ tool_calls[t] = <<>>

\* the text deltas of the events with a choice, up to the first terminal one
RECURSIVE Deltas(_)
Deltas(log) ==
    IF log = <<>> THEN <<>>
    ELSE IF ~Head(log).choices THEN Deltas(Tail(log))
    ELSE IF Head(log).finish_reason # None THEN <<Head(log).content>>
    ELSE <<Head(log).content>> \o Deltas(Tail(log))

Terminated(log) == \E i \in 1 .. Len(log) : log[i].choices /\ log[i].finish_reason # None

\* the stream was read to its terminal event and no tool round has followed
StreamDone(t) ==
    /\ pc[t] = "after_stream" /\ request[t] = first_request[t]
    /\ Terminated(event_log[t])

Response(t) == Concat(Deltas(event_log[t]))

\* where the chunks that the loop appends end: after each delta but the last
\* two, which are appended together
Boundaries(ds) == {Len(Concat(SubSeq(ds, 1, j))) : j \in 0 .. Len(ds) - 2}

Carriers(t, i) ==
    {j \in 1 .. Len(sent) :
        sent[j].turn = t /\ sent[j].seg = i /\ sent[j].kind # "warning"}

RECURSIVE Choices(_)
Choices(log) ==
    IF log = <<>> THEN <<>>
    ELSE IF Head(log).choices THEN <<Head(log)>> \o Choices(Tail(log))
    ELSE Choices(Tail(log))

HelloStream ==
    <<Event("Hel", <<>>, None), Event("lo", <<>>, None), Event("", <<>>, "stop")>>

\* the handler of a chain of three messages, without system prompt, has
\* returned after this stream, and no edit is on its way
HelloTurn(t) ==
    /\ pc[t] = "done" /\ edits = {}
    /\ Len(ChainOf(t)) = 3 /\ config.system_prompt = ""
    /\ Len(Choices(event_log[t])) >= 3
    /\ SubSeq(Choices(event_log[t]), 1, 3) = HelloStream

\* what the platform shows of a message
Displayed(m) == IF platform[m].embeds # <<>> THEN platform[m].embeds[1] ELSE platform[m].body

\* C10: for a chain of three messages without system prompt, the deltas
\* "Hel" and "lo" and a terminal event "stop" give one message, which shows
\* "Hello".
C10_HelloIsOneMessage ==
    \A t \in Turns :
        HelloTurn(t)
        => /\ Len(response_msgs[t]) = 1
           /\ Cardinality({j \in 1 .. Len(sent) : sent[j].turn = t}) = 1
           /\ Displayed(response_msgs[t][1]) = "Hello"

\* such a handler, with embeds: the message was sent as "Hel..." and edited
C10_Witness ==
    \E t \in Turns :
        /\ HelloTurn(t) /\ ~config.use_plain_responses
        /\ applied[t] = <<1>>
        /\ Displayed(response_msgs[t][1]) = "Hello"

----------------------------------------------------------------------------
(* Properties of plain delivery and of the tool round.                     *)

\* the handler is at or before the stream loop
StreamPcs == WalkPcs \cup {"stream", "await_edit", "render", "reply"}

\* the texts of the messages the handler has sent, in order (the warning
\* reply aside)
RECURSIVE TextsSent(_, _)
TextsSent(t, log) ==
    IF log = <<>> THEN <<>>
    ELSE IF Head(log).turn = t /\ Head(log).kind # "warning"
    THEN <<Head(log).text>> \o TextsSent(t, Tail(log))
    ELSE TextsSent(t, Tail(log))

FirstRound(t) == pc[t] = "tool_request" /\ provider[t].rounds = env.rounds

IsToolCallEntry(e) == e.role = "assistant" /\ "tool_calls" \in DOMAIN e

\* C12: in a tool round with two calls every call is processed, whether it
\* succeeds or fails: the follow-up request is the streamed request, then one
\* assistant entry with the two calls, then one tool entry per call, in call
\* order, with that call's result or its error payload.
C12_FailingCallKeepsRound ==
    \A t \in Turns :
        (FirstRound(t) /\ Len(tool_calls[t]) = 2)
        => LET req == request[t]
               n == Len(first_request[t])
           IN  /\ Len(tool_results[t]) = 2
               /\ Len(req) = n + 3
               /\ SubSeq(req, 1, n) = first_request[t]
               /\ req[n + 1] = AssistantEntry(None, tool_calls[t])
               /\ \A i \in 1 .. 2 :
                     req[n + 1 + i] = ToolEntry(tool_calls[t][i], tool_results[t][i])
               /\ Cardinality({i \in 1 .. Len(req) : IsToolCallEntry(req[i])}) = 1
               /\ Cardinality({i \in 1 .. Len(req) : req[i].role = "tool"}) = 2

\* the first call failed, the second succeeded, and the request has both
C12_Witness ==
    \E t \in Turns :
        /\ FirstRound(t) /\ Len(tool_calls[t]) = 2
        /\ tool_results[t] = <<"{error}", "{result}">>
        /\ request[t][Len(request[t])].content = "{result}"
        /\ request[t][Len(request[t]) - 1].content = "{error}"

----------------------------------------------------------------------------
(* Properties of the breakpoint selector.                                  *)

MarkedIn(result) == {i \in 1 .. Len(result) : result[i].cache_control}

\* C13: whatever the list, apply_anthropic_cache_control marks at most
\* MAX_BREAKPOINTS (4) segments, and it changes nothing else.
C13_AtMostFourMarked ==
    selector.returned
    => /\ Cardinality(MarkedIn(selector.result)) <= MAX_BREAKPOINTS
       /\ Len(selector.result) = Len(selector.messages)
       /\ \A i \in 1 .. Len(selector.result) :
             [selector.result[i] EXCEPT !.cache_control = FALSE] = selector.messages[i]

\* six entries qualify and four are marked
C13_Witness ==
    /\ selector.returned
    /\ Len(selector.messages) = MaxList
    /\ \A i \in 1 .. MaxList : IsCandidate(selector.messages, i)
    /\ Cardinality(MarkedIn(selector.result)) = MAX_BREAKPOINTS

SystemAt(msgs) == {i \in 1 .. Len(msgs) : msgs[i].role = "system"}

\* C14: when the list has one system entry and its text has at least
\* MIN_CACHE_LENGTH characters, that entry is marked, wherever it is in the
\* list and however many other entries qualify.
C14_SystemIsMarked ==
    \A i \in 1 .. Len(selector.messages) :
        (/\ selector.returned
         /\ SystemAt(selector.messages) = {i}
         /\ Len(selector.messages[i].content) >= MIN_CACHE_LENGTH)
        => selector.result[i].cache_control

\* the system entry is the last of six entries that all qualify, the five
\* others longer than it, and it is marked
C14_Witness ==
    /\ selector.returned
    /\ Len(selector.messages) = MaxList
    /\ SystemAt(selector.messages) = {MaxList}
    /\ selector.messages[MaxList].content = "abc"
    /\ \A i \in 1 .. MaxList - 1 : selector.messages[i].content = "abcd"
    /\ MaxList \in MarkedIn(selector.result)

----------------------------------------------------------------------------
(* Properties of the prompt cache.                                         *)

\* all that the manager has done since it was created is to record the same
\* text twice, in one call or in two
TwiceRecorded ==
    /\ Len(recorded) = 2 /\ recorded[1].content = recorded[2].content
    /\ recorded[1].call = 1 /\ recorded[2].call = cache_calls
    /\ cache_calls <= 2

\* C15 as stated: the same text recorded twice gives one write and one hit,
\* one stored entry with hits = 1, and a hit rate of 1/2.
C15_TwiceIsWriteAndHit ==
    TwiceRecorded
    => /\ get_cache_stats.cache_writes = 1
       /\ get_cache_stats.cache_hits = 1
       /\ get_cache_stats.total_entries = 1
       /\ cache[1].hits = 1
       /\ get_cache_stats.hit_rate = <<1, 2>>

\* C15, amended: the same text recorded twice gives one write and one hit
\* and a hit rate of 1/2; the entry is stored, with hits = 1, when the second
\* recording comes no more than ttl_seconds after the first; when it comes
\* later, the eviction pass that ends its call removes the entry and nothing
\* is stored.
C15_TwiceIsWriteAndHitWithinTTL ==
    TwiceRecorded
    => /\ get_cache_stats.cache_writes = 1
       /\ get_cache_stats.cache_hits = 1
       /\ get_cache_stats.hit_rate = <<1, 2>>
       /\ IF recorded[2].clock <= recorded[1].clock + TTL_SECONDS
          THEN /\ get_cache_stats.total_entries = 1
               /\ cache[1].hits = 1
               /\ cache[1].content = recorded[1].content
               /\ get_cache_stats.total_hits = 1
          ELSE get_cache_stats.total_entries = 0

\* the second recording came in a later call, within the lifetime
C15_Witness ==
    /\ TwiceRecorded
    /\ recorded[2].clock > recorded[1].clock
    /\ get_cache_stats.total_entries = 1
    /\ cache[1].hits = 1
    /\ get_cache_stats.hit_rate = <<1, 2>>

\* C16: after an eviction pass no entry is older than ttl_seconds, whatever
\* its last access and the size of the cache; an entry's timestamp is the
\* time of the write that created it, which no hit changes.
C16_NoExpiredEntryAfterPass ==
    \A i \in 1 .. Len(cache) :
        /\ last_pass <= cache[i].timestamp + TTL_SECONDS
        /\ \E k \in 1 .. Len(recorded) :
              /\ recorded[k].kind = "write"
              /\ recorded[k].content = cache[i].content
              /\ recorded[k].clock = cache[i].timestamp
              /\ \A j \in k + 1 .. Len(recorded) :
                    recorded[j].content = cache[i].content => recorded[j].kind = "hit"

\* an entry was hit in the call whose pass purged it, with the cache under
\* its capacity
C16_Witness ==
    /\ recorded # <<>>
    /\ recorded[Len(recorded)].kind = "hit"
    /\ recorded[Len(recorded)].clock = last_pass
    /\ Position(cache, Hash(recorded[Len(recorded)].content)) = 0
    /\ cache_stats.evictions_ttl >= 1
    /\ cache_stats.evictions_lru = 0
    /\ Len(cache) < MAX_CACHE_SIZE

----------------------------------------------------------------------------
(* Properties of the failures.                                             *)

\* the completion stream of the handler has raised
StreamFailed(t) == event_log[t] # <<>> /\ Last(event_log[t]) = StreamError

\* the stream of the handler raises in this step
StreamFails(t) == ~StreamFailed(t) /\ event_log'[t] # event_log[t] /\ StreamFailed(t)'

SentBy(t, log) == {j \in 1 .. Len(log) : log[j].turn = t}

Holds(t) == {n \in 1 .. Len(heap) : heap[n].lock = t}

\* C17: when the completion stream raises, the step that catches it changes
\* nothing of the platform, of the store or of another handler; from then on
\* the handler sends no message and issues no edit, its messages stay on the
\* platform, the guards of its response nodes are released at lines 672-674,
\* and when it has returned it holds no guard.
C17_StreamFailureEndsTurnOnly ==
    [][\A t \in Turns :
          /\ StreamFails(t)
                => /\ platform' = platform /\ msg_nodes' = msg_nodes /\ heap' = heap
                   /\ sent' = sent /\ edits' = edits
                   /\ \A u \in Turns \ {t} :
                         /\ pc'[u] = pc[u] /\ failed'[u] = failed[u]
                         /\ messages'[u] = messages[u]
                         /\ response_contents'[u] = response_contents[u]
          /\ StreamFailed(t)
                => /\ SentBy(t, sent') = SentBy(t, sent)
                   /\ issued'[t] = issued[t]
                   /\ response_msgs'[t] = response_msgs[t]
                   /\ \A i \in 1 .. Len(response_msgs[t]) :
                         response_msgs[t][i] \in DOMAIN platform'
                   /\ (pc[t] = "finalize" /\ pc'[t] # "finalize")
                         => /\ pc'[t] = "evict"
                            /\ \A i \in 1 .. Len(response_msgs[t]) :
                                  heap'[msg_nodes[response_msgs[t][i]]].lock # t
                   /\ pc'[t] = "done" => \A n \in 1 .. Len(heap') : heap'[n].lock # t]_vars

\* a handler whose stream raised after it had sent a message has returned;
\* its message is on the platform; a handler that ran at the same time has
\* returned without error, its answer delivered
C17_Witness ==
    \E t, u \in Turns :
        /\ StreamFailed(t) /\ pc[t] = "done" /\ failed[t]
        /\ Len(response_msgs[t]) = 1
        /\ Displayed(response_msgs[t][1]) = "a" \o STREAMING_INDICATOR
        /\ Overlap(t, u) /\ pc[u] = "done" /\ ~failed[u]
        /\ Len(response_msgs[u]) = 1 /\ Displayed(response_msgs[u][1]) = "a"

\* the fetch of an attachment raised and the exception ended the handler
FetchAborted(t) == pc[t] = "fetch_raised"

\* C18: a failing attachment fetch does not end the handler: the walk goes
\* on and the completion request is made.
C18_FetchFailureIsNotFatal == \A t \in Turns : ~FetchAborted(t)

\* C19: no exception leaves on_message.
C19_NothingPropagates == \A t \in Turns : pc[t] \notin Propagated

----------------------------------------------------------------------------
(* Properties of the final flush.                                          *)

\* the handler has returned without error after a stream that reached its
\* terminal event, with embeds, and every edit it issued has taken effect
Settled(t) ==
    /\ ~config.use_plain_responses
    /\ pc[t] = "done" /\ ~failed[t] /\ ~edit_error[t]
    /\ Terminated(event_log[t])
    /\ EditsOf(t) = {}

\* C20: with embeds, the last render of every segment's message carries the
\* whole segment and no streaming indicator: once the edits have taken
\* effect, each message shows exactly its segment.
C20_EverySegmentFlushed ==
    \A t \in Turns :
        Settled(t)
        => /\ Len(response_msgs[t]) = Len(response_contents[t])
           /\ \A k \in 1 .. Len(response_contents[t]) :
                 Displayed(response_msgs[t][k]) = response_contents[t][k]

----------------------------------------------------------------------------
(* Properties of the segments.                                             *)

\* C21: at every point of a stream every segment has at most
\* max_message_length characters.
C21_SegmentsWithinLimit ==
    \A t \in Turns :
        \A k \in 1 .. Len(response_contents[t]) :
            Len(response_contents[t][k]) <= max_message_length

\* C22: once the terminal event of the stream has been read, the segments
\* in order, joined, are the text deltas of the events up to and including
\* the terminal one, joined in arrival order.
C22_SegmentsAreTheDeltas ==
    \A t \in Turns :
        Terminated(event_log[t]) => Concat(response_contents[t]) = Response(t)

\* three deltas with text, the last on the terminal event, in two segments
C22_Witness ==
    \E t \in Turns :
        /\ Terminated(event_log[t])
        /\ Len(response_contents[t]) = 2
        /\ Len(Deltas(event_log[t])) = 3
        /\ \A i \in 1 .. 3 : Deltas(event_log[t])[i] # ""
        /\ Concat(response_contents[t]) = "abcdef"

----------------------------------------------------------------------------
(* Properties of the accumulated tool calls.                               *)

\* the tool-call fragments of the events with a choice, up to the first
\* terminal one, in arrival order
RECURSIVE FragmentsRead(_)
FragmentsRead(log) ==
    IF log = <<>> THEN <<>>
    ELSE IF ~Head(log).choices THEN FragmentsRead(Tail(log))
    ELSE IF Head(log).finish_reason # None THEN Head(log).tool_calls
    ELSE Head(log).tool_calls \o FragmentsRead(Tail(log))

\* the argument pieces of the fragments that declare index i, joined in
\* arrival order
RECURSIVE ArgumentsFor(_, _)
ArgumentsFor(frags, i) ==
    IF frags = <<>> THEN ""
    ELSE IF Head(frags).index = i THEN Head(frags).arguments \o ArgumentsFor(Tail(frags), i)
    ELSE ArgumentsFor(Tail(frags), i)

Declared(frags) == {frags[j].index : j \in 1 .. Len(frags)}

\* C23: whatever the order of the indices and however the fragments
\* interleave, reading the fragments raises nothing, and the call accumulated
\* for a declared index has as arguments the pieces declared for that index,
\* joined in arrival order.
C23_ArgumentsByIndex ==
    \A t \in Turns :
        LET frags == FragmentsRead(event_log[t])
        IN  /\ ~failed[t]
            /\ \A i \in Declared(frags) :
                  /\ i + 1 <= Len(tool_calls[t])
                  /\ tool_calls[t][i + 1].arguments = ArgumentsFor(frags, i)

----------------------------------------------------------------------------
(* Properties of the tool rounds.                                          *)

\* the follow-up request of a tool round has been sent and is awaited
RoundRequested(t) == pc[t] = "tool_request"

\* C24: the message list sent for a tool round ends with the assistant entry
\* that carries the round's calls, immediately followed by one tool entry
\* per call, in call order, each with the identifier of its call.
C24_CallsThenResults ==
    \A t \in Turns :
        RoundRequested(t)
        => LET req == request[t]
               n == Len(tool_calls[t])
               a == Len(req) - n
           IN  /\ Len(tool_results[t]) = n
               /\ a >= 1
               /\ IsToolCallEntry(req[a])
               /\ req[a].tool_calls = tool_calls[t]
               /\ \A i \in 1 .. n :
                     /\ req[a + i].role = "tool"
                     /\ req[a + i].tool_call_id = tool_calls[t][i].id
                     /\ req[a + i].content = tool_results[t][i]

\* the request of a second round with three calls, whose results differ
C24_Witness ==
    \E t \in Turns :
        /\ RoundRequested(t)
        /\ tool_calls[t] = ThreeCalls
        /\ tool_results[t] = <<"{result}", "{error}", "{error}">>
        /\ Last(request[t]).tool_call_id = "c6"

\* the rounds of the tool loop begun so far: the first, and one for every
\* follow-up response that asked for more tools
RoundsBegun(t) ==
    1 + Cardinality({i \in 1 .. Len(provider[t].given) : MoreTools(provider[t].given[i])})

\* C25: the message list sent for a tool round, the first or a later one,
\* holds exactly one assistant tool-call entry for every round begun so far.
C25_OneAssistantEntryPerRound ==
    \A t \in Turns :
        RoundRequested(t)
        => Cardinality({i \in 1 .. Len(request[t]) : IsToolCallEntry(request[t][i])})
              = RoundsBegun(t)

\* the handler is in the tool loop of line 542
InToolLoop(t) ==
    \/ pc[t] \in {"tool_call", "tool_exec", "tool_request", "tool_send"}
    \/ pc[t] = "after_stream" /\ ToolLoopRuns(tool_calls[t], finish_reason[t])

\* the follow-up request of the handler returns or raises in this step
FollowUpArrives(t) == pc[t] = "tool_request" /\ provider'[t].given # provider[t].given

AsksForTools(r) == r.finish_reason = "tool_calls" /\ r.tool_calls # <<>>

RECURSIVE IdsSent(_, _)
IdsSent(t, log) ==
    IF log = <<>> THEN <<>>
    ELSE IF Head(log).turn = t /\ Head(log).kind # "warning"
    THEN <<Head(log).id>> \o IdsSent(t, Tail(log))
    ELSE IdsSent(t, Tail(log))

\* an answer of the tool loop was received and the handler has returned
Answered(t) == pc[t] = "done" /\ final_content[t] # None

\* C27: an answer of the tool loop of n characters is sent as one message
\* when n <= CONTENT_LIMIT, and otherwise as min(MAX_CHUNKS, ceil(n /
\* CONTENT_LIMIT)) messages of at most CONTENT_LIMIT characters, in text
\* order, each a reply to the message sent before it (the first, when the
\* stream carried no text, to the user's message); nothing else is sent for
\* the answer.
C27_AnswerInChunks ==
    \A t \in Turns :
        Answered(t)
        => LET content == final_content[t]
               n == Len(content)
               k == IF n <= CONTENT_LIMIT THEN 1
                    ELSE Min(MAX_CHUNKS, (n + CONTENT_LIMIT - 1) \div CONTENT_LIMIT)
               texts == TextsSent(t, sent)
               ids == IdsSent(t, sent)
           IN  /\ Len(texts) = k
               /\ \A i \in 1 .. Len(texts) :
                     /\ Len(texts[i]) <= CONTENT_LIMIT
                     /\ texts[i] = SubSeq(content, (i - 1) * CONTENT_LIMIT + 1,
                                          Min(i * CONTENT_LIMIT, n))
                     /\ platform[ids[i]].reference =
                           (IF i = 1 THEN new_msg[t] ELSE ids[i - 1])

----------------------------------------------------------------------------
(* Properties of the breakpoints in the request.                           *)

\* a list as on_message gives it to the selector (line 430): the
\* conversation entries, newest first, then the system prompt, if any
AsAssembled(msgs) ==
    \A i \in 1 .. Len(msgs) : msgs[i].role = "system" => i = Len(msgs)

\* C28: in the list sent to the provider (oldest first), a conversation
\* entry that qualifies is marked whenever a later (more recent)
\* conversation entry is marked: when the breakpoints do not suffice, the
\* older entries have them.
C28_OlderEntriesFirst ==
    (selector.returned /\ AsAssembled(selector.messages))
    => LET sent_list == Wire(selector.result)
       IN  \A p, q \in 1 .. Len(sent_list) :
              (/\ p < q
               /\ sent_list[p].role # "system" /\ sent_list[q].role # "system"
               /\ Len(sent_list[p].content) >= MIN_CACHE_LENGTH
               /\ sent_list[q].cache_control)
              => sent_list[p].cache_control

----------------------------------------------------------------------------
(* Properties of the walk's bounds.                                        *)

\* the walk is over and the chain of the leaf has more than max_messages
\* messages
LongChainWalked(t) == pc[t] \notin {"idle", "get_config", "walk", "wait_lock", "locked", "fetch"}
                      /\ Len(ChainOf(t)) > max_messages

\* the conversation entries never exceed max_messages, during the walk and
\* in the request
WithinMaxMessages(t) ==
    /\ pc[t] \in WalkPcs => Len(messages[t]) <= max_messages
    /\ Requested(t) => Len(Sources(first_request[t])) <= max_messages

\* the walk stopped at the message that gave the last entry: its parent is
\* the next message to visit, and was not visited
StoppedAtLastEntry(t) ==
    (pc[t] = "assembled" /\ Len(messages[t]) = max_messages)
    => curr_msg[t] = ResolveParent(platform, Last(messages[t]).src).parent

\* C29 as stated: the entries never exceed max_messages, and for a chain of
\* more than max_messages messages the walk stops as soon as it has
\* max_messages entries, which are those of the newest max_messages
\* messages of the chain, the leaf's first.
C29_NewestMessages ==
    \A t \in Turns :
        /\ WithinMaxMessages(t)
        /\ LongChainWalked(t)
           => /\ StoppedAtLastEntry(t)
              /\ pc[t] = "assembled"
                 => Sources(messages[t]) = Prefix(ChainOf(t), max_messages)

\* C29, amended: the entries never exceed max_messages, and for a chain of
\* more than max_messages messages the walk stops as soon as it has
\* max_messages entries, which are those of the newest max_messages
\* messages of the chain that are not empty, the newest first in the list.
C29_NewestNonEmptyMessages ==
    \A t \in Turns :
        /\ WithinMaxMessages(t)
        /\ LongChainWalked(t)
           => /\ StoppedAtLastEntry(t)
              /\ pc[t] = "assembled"
                 => Sources(messages[t])
                      = Prefix(NotEmptyOnly(platform, ChainOf(t)), max_messages)

\* a chain of four messages with text: the walk has stopped after three
\* entries, before the root
C29_Witness ==
    \E t \in Turns :
        /\ pc[t] = "assembled"
        /\ ChainOf(t) = <<4, 3, 2, 1>>
        /\ Sources(messages[t]) = <<4, 3, 2>>
        /\ curr_msg[t] = 1
        /\ 1 \notin DOMAIN msg_nodes

----------------------------------------------------------------------------
(* Properties of a failed parent resolution.                               *)

\* fetch_message of the message's reference raises NotFound
ParentMissing(P, m) ==
    ~ImplicitParent(P, m) /\ P[m].reference # NoMsg /\ P[m].reference \notin DOMAIN P

\* the handler finishes the walk step of its current message in this step
StepFinishes(t) == pc[t] \in {"locked", "fetch"} /\ pc'[t] = "walk"

\* C30: the walk step of a message whose parent cannot be resolved records
\* fetch_parent_failed on the node, emits the message's entry (when the
\* message is not empty, as for any message), ends the walk and adds the
\* warning; a later step through the node, already populated, resolves
\* nothing again and does the same.  The handler then leaves the walk and
\* makes its completion request.
C30_FailedParentEndsWalkOnly ==
    [][\A t \in Turns :
          /\ (StepFinishes(t) /\ ParentMissing(platform, curr_msg[t]))
             => LET n == curr_node[t]
                    m == curr_msg[t]
                IN  /\ heap'[n].fetch_parent_failed
                    /\ NotEmpty(platform, m)
                       => /\ Len(messages'[t]) = Len(messages[t]) + 1
                          /\ Last(messages'[t]).src = m
                    /\ curr_msg'[t] = NoMsg
                    /\ <<"only_last", Len(messages'[t])>> \in user_warnings'[t]
                    /\ heap[n].text # None
                       => /\ populate_log' = populate_log
                          /\ heap[n].fetch_parent_failed
          /\ (pc[t] = "walk" /\ curr_msg[t] = NoMsg /\ pc'[t] # pc[t])
             => pc'[t] = "assembled"
          /\ (pc[t] \in {"assembled", "warn_send"} /\ pc'[t] # pc[t])
             => /\ pc'[t] \in {"warn_send", "stream"}
                /\ pc'[t] = "stream" => request'[t] # <<>>]_vars

\* message 1 replies to a deleted message: a second handler has walked its
\* node, populated by the first, and has made its request with the warning
C30_Witness ==
    \E t \in Turns :
        /\ Requested(t) /\ new_msg[t] = 1
        /\ ParentMissing(platform, 1)
        /\ <<"only_last", 1>> \in user_warnings[t]
        /\ Sources(first_request[t]) = <<1>>
        /\ \E e \in populate_log : e[2] = 1
        /\ \A e \in populate_log : e[2] = 1 => e[1] # t

----------------------------------------------------------------------------
(* Properties of the history warning.                                      *)

\* the "Only using last N messages" warnings of the handler
TruncationWarnings(t) == {w \in user_warnings[t] : w[1] = "only_last"}

\* the walk of the handler is over (the loop test of line 312 has failed)
WalkOver(t) ==
    pc[t] \notin {"idle", "get_config", "walk", "wait_lock", "locked", "fetch",
                  "fetch_raised"}

\* the walk ended with a message left to visit
LeftUnvisited(t) == curr_msg[t] # NoMsg

\* the walk ended at a node whose parent could not be fetched
EndedAtFailure(t) == curr_node[t] # 0 /\ heap[curr_node[t]].fetch_parent_failed

\* C31: the history warning is in the warning set exactly when the walk
\* ended with a message left to visit, the list being full, or at a node
\* whose parent fetch failed; a walk that ends at a root adds none.  The set
\* never holds two, the warning is added by the last step of the walk only,
\* and its number is the length of the list.
C31_TruncationWarning ==
    \A t \in Turns :
        /\ Cardinality(TruncationWarnings(t)) <= 1
        /\ pc[t] \in {"idle", "get_config", "wait_lock", "locked", "fetch"}
              => TruncationWarnings(t) = {}
        /\ (pc[t] = "walk" /\ TruncationWarnings(t) # {})
              => WalkEnds(curr_msg[t], messages[t])
        /\ WalkOver(t)
              => ((TruncationWarnings(t) # {}) <=> (LeftUnvisited(t) \/ EndedAtFailure(t)))
        /\ pc[t] = "assembled"
              => /\ LeftUnvisited(t) => Len(messages[t]) = max_messages
                 /\ TruncationWarnings(t) \subseteq {<<"only_last", Len(messages[t])>>}

\* a chain of four messages: the handler of message 4 stopped at the bound
\* and has the warning; the handler of message 3 filled the list as well,
\* reached the root and has none
C31_Witness ==
    \E t, u \in Turns :
        /\ Requested(t) /\ new_msg[t] = 4 /\ curr_msg[t] = 1
        /\ TruncationWarnings(t) = {<<"only_last", max_messages>>}
        /\ Requested(u) /\ new_msg[u] = 3 /\ curr_msg[u] = NoMsg
        /\ Len(Sources(first_request[u])) = max_messages
        /\ TruncationWarnings(u) = {}

----------------------------------------------------------------------------
(* Properties of the guards.                                               *)

\* the identifiers this step removes from the store
Removed == DOMAIN msg_nodes \ DOMAIN msg_nodes'

\* the handler removes the identifier in this step of its eviction pass
Removes(t, id) ==
    /\ pc[t] \in {"evict", "evict_wait"}
    /\ evict_ids[t] # <<>> /\ Head(evict_ids[t]) = id
    /\ evict_ids'[t] = Tail(evict_ids[t])

\* C32: a node is never removed from the store while a handler other than
\* the one that removes it holds its guard.
C32_NoRemovalUnderGuard ==
    [][\A id \in Removed :
          \A u \in Turns :
              heap[msg_nodes[id]].lock = u => Removes(u, id)]_vars

----------------------------------------------------------------------------
(* Properties of a walk through the response of a handler in flight.       *)

\* the handler has sent a response message and has not yet reached lines
\* 672-674: it holds the guards of its response nodes
InFlight(u) ==
    response_msgs[u] # <<>> /\ pc[u] \notin {"evict", "evict_wait", "done", "crashed"}

ResponsesOf(u) == {response_msgs[u][i] : i \in 1 .. Len(response_msgs[u])}

\* nobody has populated a node of the message from the platform
NeverPopulated(m) == \A p \in populate_log : p[2] # m

HeldBy(t) == {n \in 1 .. Len(heap) : heap[n].lock = t}
WaitedBy(t) == {n \in 1 .. Len(heap) : \E i \in 1 .. Len(heap[n].waiters) : heap[n].waiters[i] = t}

WaitsForGuard(t) == pc[t] \in {"wait_lock", "evict_wait"}

\* C34: a handler that has returned or raised holds no guard and waits for
\* none, whether its fetches and its stream succeeded or failed; a handler
\* that waits for a guard, in its walk or in its eviction pass, is eventually
\* handed it, and every handler that began eventually returns or raises.
C34_GuardsReleased ==
    /\ [](\A t \in Turns : pc[t] \in Returned => HeldBy(t) = {} /\ WaitedBy(t) = {})
    /\ \A t \in 1 .. NumTurns : WaitsForGuard(t) ~> (~WaitsForGuard(t) /\ WaitedBy(t) = {})
    /\ \A t \in 1 .. NumTurns : (pc[t] # "idle") ~> (pc[t] \in Returned)

\* both handlers are over, the stream of one failed after it had sent a
\* response message, the eviction pass of the other waited for a guard, and
\* every guard is free
C34_Witness ==
    \E t, u \in Turns :
        /\ t # u /\ pc[t] = "done" /\ pc[u] = "done"
        /\ failed[u] /\ response_msgs[u] # <<>>
        /\ pass_waited[t]
        /\ \A n \in 1 .. Len(heap) : ~Locked(heap[n]) /\ heap[n].waiters = <<>>

----------------------------------------------------------------------------
(* Termination of the walk.                                                *)

\* the messages the walk from m visits on P when nothing stops it but a
\* missing parent, the first MaxGraph + 1 of them
Visits(P, m) == Chain(P, m, MaxGraph + 1)

Acyclic(P, m) == Len(Visits(P, m)) <= MaxGraph

\* the visited messages that are their own ancestors
OnCycle(P, m) ==
    {k \in Range(Visits(P, m)) :
        k \in Range(Chain(P, ResolveParent(P, k).parent, MaxGraph))}

\* the node of the message gives an entry (line 371)
Yields(P, m) == HasContent(Populated(MsgNode(NoMsg), P, m))

\* the walk from m can fill the list or reach a root
CanEnd(P, m) ==
    \/ Acyclic(P, m)
    \/ \E k \in OnCycle(P, m) : Yields(P, k)
    \/ Cardinality({k \in Range(Visits(P, m)) \ OnCycle(P, m) : Yields(P, k)})
          >= max_messages

WalkBegun(t) == pc[t] \notin {"idle"}
WalkDone(t) == pc[t] \notin {"idle", "get_config", "walk", "wait_lock", "locked", "fetch"}

\* the walk ended at a root (or at a failed fetch) or at the bound, and on a
\* chain it populated at most as many nodes as the chain has messages
EndsOnChains(t) ==
    /\ pc[t] = "assembled"
       => curr_msg[t] = NoMsg \/ Len(messages[t]) = max_messages
    /\ (new_msg[t] # NoMsg /\ Acyclic(platform, new_msg[t]))
       => Cardinality({p \in populate_log : p[1] = t}) <= Len(Visits(platform, new_msg[t]))

\* C40 as stated: the walk ends on every reply graph, a cycle included.
C40_WalkAlwaysEnds ==
    /\ [](EndsOnChains(1))
    /\ WalkBegun(1) ~> WalkDone(1)

\* C40: on a forest the walk ends at a root or at the bound after visiting
\* at most as many nodes as the chain has; on a graph with a cycle it ends
\* exactly when the list fills up, that is when some message of the cycle
\* gives an entry (or the messages before the cycle fill the list): a cycle
\* of messages without content is walked forever.
C40_WalkEndsIfEntries ==
    /\ [](EndsOnChains(1))
    /\ [](WalkDone(1) => CanEnd(platform, new_msg[1]))
    /\ (WalkBegun(1) /\ CanEnd(platform, new_msg[1])) ~> WalkDone(1)

\* the walk went twice round a cycle of two messages, one without content,
\* and stopped with three entries
C40_Witness ==
    /\ pc[1] = "assembled"
    /\ ~Acyclic(platform, new_msg[1])
    /\ Cardinality(OnCycle(platform, new_msg[1])) = 2
    /\ \E k \in OnCycle(platform, new_msg[1]) : ~Yields(platform, k)
    /\ Len(messages[1]) = max_messages
    /\ curr_msg[1] # NoMsg

----------------------------------------------------------------------------
(* Properties of the response nodes.                                       *)

\* what the platform shows of the messages, joined in order
RECURSIVE DeliveredText(_)
DeliveredText(ids) ==
    IF ids = <<>> THEN "" ELSE Displayed(Head(ids)) \o DeliveredText(Tail(ids))

\* the handler is past lines 672-674 without an error, and its edits have
\* reached the platform
FinishedClean(t) ==
    /\ pc[t] \in {"evict", "evict_wait", "done"}
    /\ ~failed[t] /\ ~edit_error[t]
    /\ \A e \in edits : e.turn # t

\* the node of a response message is an assistant node under the triggering
\* message with the joined segments as its text
HoldsResponse(t, m) ==
    LET node == heap[msg_nodes[m]]
    IN  /\ node.role = "assistant"
        /\ node.parent_msg = new_msg[t]
        /\ node.text = Concat(response_contents[t])

\* C35: when a handler has finished, the node of every response message it
\* sent is an assistant node whose parent is the triggering message and
\* whose text is the concatenation of the segments, and that text is what
\* the response messages show.
C35_NodesHoldDelivered ==
    \A t \in Turns :
        FinishedClean(t)
        => \A m \in ResponsesOf(t) :
              m \in DOMAIN msg_nodes
              => /\ HoldsResponse(t, m)
                 /\ heap[msg_nodes[m]].text = DeliveredText(response_msgs[t])

----------------------------------------------------------------------------
(* Properties of the colour of the renders.                                *)

HasIndicator(text) ==
    /\ Len(text) >= Len(STREAMING_INDICATOR)
    /\ SubSeq(text, Len(text) - Len(STREAMING_INDICATOR) + 1, Len(text)) = STREAMING_INDICATOR

\* what a message shows carries the indicator only with the colour of an
\* incomplete response
IndicatorIsIncomplete(m) == HasIndicator(Displayed(m)) => platform[m].color = "incomplete"

\* the last render of the final segment is complete exactly on a clean stop
FinalSegmentColour(t) ==
    platform[Last(response_msgs[t])].color = "complete" <=> IsGoodFinish(finish_reason[t])

\* the segments before the final one were closed by a split
SplitSegmentsComplete(t) ==
    \A i \in 1 .. Len(response_msgs[t]) - 1 :
        /\ platform[response_msgs[t][i]].color = "complete"
        /\ ~HasIndicator(Displayed(response_msgs[t][i]))

\* C36: with embeds, when the handler has finished and its renders have
\* reached the platform, the final segment's message is marked complete
\* exactly when the finish reason is stop or end_turn, no message shows the
\* streaming indicator with the colour of a complete one, and every segment
\* closed by a split is marked complete, without the indicator.
C36_CompleteOnCleanStop ==
    \A t \in Turns :
        (FinishedClean(t) /\ ~config.use_plain_responses /\ response_msgs[t] # <<>>)
        => /\ \A m \in ResponsesOf(t) : IndicatorIsIncomplete(m)
           /\ FinalSegmentColour(t)
           /\ SplitSegmentsComplete(t)

----------------------------------------------------------------------------
(* Properties of the edit throttle.                                        *)

\* the step creates an edit task of the handler (line 537)
IssuesEdit(t) == issued'[t] = issued[t] + 1

\* the step is the return of a reply of the handler, of the given kinds
Sends(t, kinds) ==
    /\ Len(sent') = Len(sent) + 1
    /\ sent'[Len(sent')].turn = t
    /\ sent'[Len(sent')].kind \in kinds

\* the render about to be made is a final flush (line 519)
FinalFlush(t) ==
    IsFinalEdit(response_contents[t], curr_content[t], finish_reason[t], max_message_length)

\* a non-forced edit is issued with no edit of the handler in flight and
\* EDIT_DELAY_SECONDS after the time in last_task_time
NonForcedWaits(t) ==
    (IssuesEdit(t) /\ ~FinalFlush(t))
    => /\ \A e \in edits : e.turn # t
       /\ now >= last_task_time + EDIT_DELAY_SECONDS

\* a chunk that starts a segment or is a final flush is rendered whatever
\* the time (the handler goes on to render it, after the edit in flight)
ForcedNotDelayed(t) ==
    (/\ response_contents'[t] # response_contents[t] /\ pc[t] = "stream"
     /\ ~config.use_plain_responses
     /\ \/ start_next_msg'[t]
        \/ IsFinalEdit(response_contents'[t], curr_content'[t], finish_reason'[t],
                       max_message_length))
    => pc'[t] \in {"render", "await_edit"}

\* last_task_time is the time of the latest reply of the given kinds or edit
\* of any handler
Stamped(kinds) ==
    /\ \A t \in Turns : (IssuesEdit(t) \/ Sends(t, kinds)) => last_task_time' = now
    /\ last_task_time' # last_task_time
       => \E t \in Turns : IssuesEdit(t) \/ Sends(t, {"embed"})

\* C37 as stated: the interval is measured from the most recent send or edit
\* of any handler, whatever the send.
C37_SinceAnySendOrEdit ==
    [][/\ \A t \in Turns : NonForcedWaits(t) /\ ForcedNotDelayed(t)
       /\ Stamped({"embed", "tool", "plain", "warning"})]_vars

\* C37: a non-forced edit is issued only when the handler has no edit in
\* flight and EDIT_DELAY_SECONDS have passed since last_task_time, the global
\* that every handler sets when its render step has sent an embed or created
\* an edit (line 539) and that nothing else sets: the replies of the tool
\* loop do not count.  A render that starts a segment or is a final flush is
\* made whatever the time.
C37_SinceLastRender ==
    [][/\ \A t \in Turns : NonForcedWaits(t) /\ ForcedNotDelayed(t)
       /\ Stamped({"embed"})]_vars

\* the first handler has issued a non-forced edit ("ab" with the indicator)
\* a second after the other handler's embed was sent; the other handler has
\* sent the first chunk of its tool round's answer since and is sending the
\* second
C37_Witness ==
    /\ \E e \in edits : e.turn = 1 /\ e.no = 1 /\ HasIndicator(e.description)
    /\ last_task_time = now /\ now = MaxNow
    /\ sent # <<>> /\ sent[Len(sent)].turn = 2 /\ sent[Len(sent)].kind = "tool"
    /\ pc[2] = "tool_send"

----------------------------------------------------------------------------
(* Properties of the size of the prompt cache.                             *)

\* this step is a call of prepare_messages_for_caching
PrepareReturns == cache_calls' # cache_calls

\* the contents the call of this step has written or hit
TouchedNow == {recorded'[k].content : k \in Len(recorded) + 1 .. Len(recorded')}

WrittenNow ==
    {recorded'[k].content :
        k \in {j \in Len(recorded) + 1 .. Len(recorded') : recorded'[j].kind = "write"}}

\* the entries that reach the LRU phase of the pass of this step, each with
\* its key and its last_accessed: the entries written by the call and the
\* older entries whose lifetime has not run out, the time of the call for
\* those the call has hit
ReachLRU ==
    {[hash |-> Hash(c), last_accessed |-> clock] : c \in WrittenNow}
    \cup {[hash |-> cache[i].hash,
           last_accessed |-> IF cache[i].content \in TouchedNow THEN clock
                             ELSE cache[i].last_accessed] :
             i \in {j \in 1 .. Len(cache) : ~Expired(cache[j], clock)}}

Stored(c) == {c[i].hash : i \in 1 .. Len(c)}

\* the entries the LRU phase of this step removes
RemovedByLRU == {e \in ReachLRU : e.hash \notin Stored(cache')}

\* C38: after every call of prepare_messages_for_caching the cache holds at
\* most max_cache_size entries; the entries the LRU phase of the call removes
\* are as many as evictions_lru grows by, and each of them was last accessed
\* no later than every entry that stays.
C38_SizeBoundAndLeastRecent ==
    [][PrepareReturns
          => /\ Len(cache') <= MAX_CACHE_SIZE
             /\ Cardinality(RemovedByLRU)
                    = cache_stats'.evictions_lru - cache_stats.evictions_lru
             /\ \A e \in RemovedByLRU : \A i \in 1 .. Len(cache') :
                    e.last_accessed <= cache'[i].last_accessed]_vars

\* the LRU phase has removed one entry and no lifetime has run out: the cache
\* is full, and an entry that stays was created before the removed one and
\* hit after it
C38_Witness ==
    /\ cache_stats.evictions_lru = 1 /\ cache_stats.evictions_ttl = 0
    /\ Len(cache) = MAX_CACHE_SIZE
    /\ \E k \in 1 .. Len(recorded) :
          /\ recorded[k].kind = "write"
          /\ Hash(recorded[k].content) \notin Stored(cache)
          /\ \E i \in 1 .. Len(cache) :
                /\ cache[i].timestamp < recorded[k].clock
                /\ cache[i].last_accessed > recorded[k].clock
                /\ cache[i].hits >= 1

----------------------------------------------------------------------------
(* Properties of the counters of the prompt cache.                         *)

\* the entries in the cache when the pass of this step begins, by key: those
\* of before the call and those the call has written
BeforePass == Stored(cache) \cup {Hash(c) : c \in WrittenNow}

\* the entries the pass of this step removes
RemovedNow == BeforePass \ Stored(cache')

\* the removed entries whose lifetime had run out; an entry written by the
\* call is as old as the call
RemovedExpired ==
    {cache[i].hash : i \in {j \in 1 .. Len(cache) :
                                /\ cache[j].hash \in RemovedNow
                                /\ Expired(cache[j], clock)}}

\* this step is a call of clear_cache
Clears == cache_calls' = cache_calls /\ clock' = clock

CountersConserved ==
    /\ cache_stats.cache_writes
          = Len(cache) + cache_stats.evictions_ttl + cache_stats.evictions_lru
    /\ SumHits(cache) <= cache_stats.cache_hits

\* every entry a pass removes is counted once, under evictions_ttl if its
\* lifetime had run out and under evictions_lru if not; a clear leaves no
\* entry and no count
OneReasonEach ==
    /\ PrepareReturns
          => /\ cache_stats'.evictions_ttl - cache_stats.evictions_ttl
                    = Cardinality(RemovedExpired)
             /\ cache_stats'.evictions_lru - cache_stats.evictions_lru
                    = Cardinality(RemovedNow \ RemovedExpired)
    /\ Clears
          => /\ cache' = <<>>
             /\ \A k \in DOMAIN cache_stats' : cache_stats'[k] = 0

\* C39: after any calls of prepare_messages_for_caching and of clear_cache,
\* cache_writes is the number of stored entries plus evictions_ttl plus
\* evictions_lru, the hits of the stored entries sum to cache_hits at most,
\* and every entry an eviction pass removes is counted under one of the two
\* reasons and not under the other.
C39_CountersConserved == [](CountersConserved) /\ [][OneReasonEach]_vars

\* the cache was cleared after a write, and since then an entry was written,
\* hit, and removed when its lifetime ran out, while another entry is stored
C39_Witness ==
    /\ Cardinality({k \in 1 .. Len(recorded) : recorded[k].kind = "write"})
          > cache_stats.cache_writes
    /\ cache_stats.evictions_ttl >= 1
    /\ cache_stats.cache_hits > SumHits(cache)
    /\ Len(cache) >= 1

====
